---- MODULE Spec2Model ----
(***************************************************************************)
(* Demand-metrics engine of the keepgoing repository: text normalisation,  *)
(* team classification, the DataService loader and its three queries, and  *)
(* the dashboard's chunked calculate_daily_metrics.                        *)
(*                                                                         *)
(* Text is modelled character by character: a text is a sequence of        *)
(* one-character tokens.  The characters outside ASCII that the source or  *)
(* its data use are named tokens: "I_ACUTE" (U+00CD), "i_acute", "A_ACUTE",*)
(* "a_acute", "C_CEDIL", "A_TILDE", "COMB_ACUTE" (U+0301), "COMB_CEDIL",   *)
(* "COMB_TILDE", "ORD_M" (U+00BA, masculine ordinal), "STAR" (U+2605).     *)
(* A cell is a record [k, s, d]: k = "text" with the characters in s,      *)
(* k = "nan" (missing, float NaN), k = "date" with the day number d, or    *)
(* k = "nat" (a missing timestamp).  In a csv file a cell of k = "date" is  *)
(* a text that reads as the date dd/mm/YYYY of day d.                      *)
(***************************************************************************)
EXTENDS Integers, Sequences, FiniteSets, TLC

VARIABLES xls, dfs, loaded, ret, txt, proc

vars == <<xls, dfs, loaded, ret, txt, proc>>

(***************************************************************************)
(* Bounds                                                                   *)
(***************************************************************************)
MaxLen == 3
MaxSheets == 2
MaxRows == 2

(***************************************************************************)
(* Cells                                                                    *)
(***************************************************************************)
Text(s) == [k |-> "text", s |-> s, d |-> 0]
NaN == [k |-> "nan", s |-> <<>>, d |-> 0]
Date(n) == [k |-> "date", s |-> <<>>, d |-> n]
NaT == [k |-> "nat", s |-> <<>>, d |-> 0]

isna(c) == c.k \in {"nan", "nat"}

(***************************************************************************)
(* Python str operations                                                    *)
(***************************************************************************)
LowerAscii == <<"a", "b", "c", "d", "e", "f", "g", "h", "i", "j", "k", "l", "m",
                "n", "o", "p", "q", "r", "s", "t", "u", "v", "w", "x", "y", "z">>
UpperAscii == <<"A", "B", "C", "D", "E", "F", "G", "H", "I", "J", "K", "L", "M",
                "N", "O", "P", "Q", "R", "S", "T", "U", "V", "W", "X", "Y", "Z">>
LowerAccented == <<"i_acute", "a_acute", "c_cedil", "a_tilde", "u_acute">>
UpperAccented == <<"I_ACUTE", "A_ACUTE", "C_CEDIL", "A_TILDE", "U_ACUTE">>
Whitespace == {" "}
OtherAscii == {" ", "/", "1"}

Range(f) == {f[i] : i \in DOMAIN f}

AsciiChars == Range(LowerAscii) \cup Range(UpperAscii) \cup OtherAscii

IsAscii(c) == c \in AsciiChars

\* str.upper() of one character
UpperTable ==
    [c \in Range(LowerAscii) \cup Range(LowerAccented) |->
        IF c \in Range(LowerAscii)
        THEN UpperAscii[CHOOSE i \in DOMAIN LowerAscii : LowerAscii[i] = c]
        ELSE UpperAccented[CHOOSE i \in DOMAIN LowerAccented : LowerAccented[i] = c]]

UpperChar(c) == IF c \in DOMAIN UpperTable THEN UpperTable[c] ELSE c

\* str.upper()
Upper(s) == [i \in 1..Len(s) |-> UpperChar(s[i])]

\* str.strip(): drops the leading and the trailing whitespace
RECURSIVE LStrip(_)
LStrip(s) ==
    IF s # <<>> /\ Head(s) \in Whitespace THEN LStrip(Tail(s)) ELSE s

RECURSIVE RStrip(_)
RStrip(s) ==
    IF s # <<>> /\ s[Len(s)] \in Whitespace
    THEN RStrip(SubSeq(s, 1, Len(s) - 1)) ELSE s

Strip(s) == RStrip(LStrip(s))

\* unicodedata.normalize('NFKD', c) of one character
NFKDChar(c) ==
    CASE c = "I_ACUTE" -> <<"I", "COMB_ACUTE">>
      [] c = "i_acute" -> <<"i", "COMB_ACUTE">>
      [] c = "A_ACUTE" -> <<"A", "COMB_ACUTE">>
      [] c = "a_acute" -> <<"a", "COMB_ACUTE">>
      [] c = "C_CEDIL" -> <<"C", "COMB_CEDIL">>
      [] c = "c_cedil" -> <<"c", "COMB_CEDIL">>
      [] c = "A_TILDE" -> <<"A", "COMB_TILDE">>
      [] c = "a_tilde" -> <<"a", "COMB_TILDE">>
      [] c = "U_ACUTE" -> <<"U", "COMB_ACUTE">>
      [] c = "u_acute" -> <<"u", "COMB_ACUTE">>
      [] c = "ORD_M" -> <<"o">>
      [] OTHER -> <<c>>

RECURSIVE NFKD(_)
NFKD(s) == IF s = <<>> THEN <<>> ELSE NFKDChar(Head(s)) \o NFKD(Tail(s))

\* s.encode('ASCII', 'ignore').decode('ASCII'): drops what is not ASCII
RECURSIVE AsciiIgnore(_)
AsciiIgnore(s) ==
    IF s = <<>> THEN <<>>
    ELSE IF IsAscii(Head(s)) THEN <<Head(s)>> \o AsciiIgnore(Tail(s))
    ELSE AsciiIgnore(Tail(s))

\* p in s (substring test)
Contains(s, p) ==
    \E i \in 0..(Len(s) - Len(p)) : SubSeq(s, i + 1, i + Len(p)) = p

\* Series.str.contains('p1|p2|...'): the regular expression is an
\* alternation of literals
ContainsAny(s, pats) == \E p \in pats : Contains(s, p)

(***************************************************************************)
(* normalize_name                                                           *)
(***************************************************************************)
normalize_name(name) ==
    IF isna(name) THEN name
    ELSE Text(AsciiIgnore(NFKD(Upper(Strip(name.s)))))

(***************************************************************************)
(* Team rosters and get_team                                                *)
(***************************************************************************)
equipe_julio_literals ==
    << <<"A", "D", "R", "I", "A", "N", "O">>,
       <<"E", "L", "I", "S", "A", "N", "G", "E", "L", "A">>,
       <<"F", "E", "L", "I", "P", "E">>,
       <<"I", "G", "O", "R">>,
       <<"A", "N", "A", " ", "G", "E", "S", "S", "I", "C", "A">>,
       <<"A", "L", "I", "N", "E">>,
       <<"N", "U", "N", "O">>,
       <<"T", "H", "A", "L", "I", "S", "S", "O", "N">>,
       <<"L", "U", "A", "R", "A">>,
       <<"M", "A", "T", "H", "E", "U", "S">>,
       <<"J", "U", "L", "I", "A", "N", "E">>,
       <<"P", "O", "L", "I", "A", "N", "A">>,
       <<"Y", "U", "R", "I">>,
       <<"A", "N", "A", " ", "L", "I_ACUTE", "D", "I", "A">> >>
\* the second roster with the surname of its first member left out
equipe_leandro_adriano_no_surname ==
    << <<"A", "L", "I", "N", "E">>,
       <<"A", "M", "A", "N", "D", "A", " ", "S", "A", "N", "T", "A", "N", "A">>,
       <<"B", "R", "U", "N", "O", " ", "M", "A", "R", "I", "A", "N", "O">>,
       <<"E", "D", "I", "A", "N", "E">>,
       <<"F", "A", "B", "I", "A", "N", "A">>,
       <<"G", "R", "E", "I", "C", "Y">>,
       <<"I", "T", "A", "Y", "N", "N", "A", "R", "A">>,
       <<"I", "Z", "A", "B", "E", "L">>,
       <<"J", "U", "L", "I", "A", "N", "A">>,
       <<"J", "U", "L", "I", "A">>,
       <<"K", "A", "T", "I", "A">>,
       <<"M", "A", "R", "I", "A", " ", "B", "R", "U", "N", "A">>,
       <<"M", "O", "N", "Y", "Z", "A">>,
       <<"S", "A", "B", "R", "I", "N", "A">>,
       <<"S", "O", "F", "I", "A">>,
       <<"V", "I", "C", "T", "O", "R", " ", "A", "D", "R", "I", "A", "N", "O">>,
       <<"V", "I", "T", "O", "R", "I", "A">> >>
equipe_leandro_adriano_literals ==
    << <<"A", "L", "I", "N", "E", " ", "S", "A", "L", "V", "A", "D", "O", "R">>,
       <<"A", "M", "A", "N", "D", "A", " ", "S", "A", "N", "T", "A", "N", "A">>,
       <<"B", "R", "U", "N", "O", " ", "M", "A", "R", "I", "A", "N", "O">>,
       <<"E", "D", "I", "A", "N", "E">>,
       <<"F", "A", "B", "I", "A", "N", "A">>,
       <<"G", "R", "E", "I", "C", "Y">>,
       <<"I", "T", "A", "Y", "N", "N", "A", "R", "A">>,
       <<"I", "Z", "A", "B", "E", "L">>,
       <<"J", "U", "L", "I", "A", "N", "A">>,
       <<"J", "U", "L", "I", "A">>,
       <<"K", "A", "T", "I", "A">>,
       <<"M", "A", "R", "I", "A", " ", "B", "R", "U", "N", "A">>,
       <<"M", "O", "N", "Y", "Z", "A">>,
       <<"S", "A", "B", "R", "I", "N", "A">>,
       <<"S", "O", "F", "I", "A">>,
       <<"V", "I", "C", "T", "O", "R", " ", "A", "D", "R", "I", "A", "N", "O">>,
       <<"V", "I", "T", "O", "R", "I", "A">> >>

\* [self.normalize_name(name) for name in self.equipe_julio]
equipe_julio == [i \in DOMAIN equipe_julio_literals |->
                    normalize_name(Text(equipe_julio_literals[i])).s]
equipe_leandro_adriano == [i \in DOMAIN equipe_leandro_adriano_literals |->
                    normalize_name(Text(equipe_leandro_adriano_literals[i])).s]

\* x in list
InList(x, list) == \E i \in DOMAIN list : list[i] = x

\* get_team without the call of normalize_name
get_team_raw(responsavel) ==
    IF isna(responsavel) THEN "Sem Responsável"
    ELSE IF InList(responsavel.s, equipe_julio) THEN "Equipe Júlio"
    ELSE IF InList(responsavel.s, equipe_leandro_adriano) THEN "Equipe Leandro e Adriano"
    ELSE "Outros"

\* DemandsTimelineAnalyzer.get_team and DemandasProcessor.calculate_totals.get_team
get_team(responsavel) ==
    IF isna(responsavel) THEN "Sem Responsável"
    ELSE LET resp == normalize_name(responsavel).s IN
         IF InList(resp, equipe_julio) THEN "Equipe Júlio"
         ELSE IF InList(resp, equipe_leandro_adriano) THEN "Equipe Leandro e Adriano"
         ELSE "Outros"

\* rosters local to DemandasAnalyzer.analyze_resolutions_by_team
daily_equipe_julio ==
    << <<"J", "U", "L", "I", "O">>,
       <<"J", "U", "L", "I", "O", " ", "C", "E", "S", "A", "R">>,
       <<"J", "U", "L", "I", "O", " ", "C", "E", "S", "A", "R", " ", "P", "E", "R", "E", "I", "R", "A">> >>
daily_equipe_leandro_adriano ==
    << <<"L", "E", "A", "N", "D", "R", "O">>,
       <<"A", "D", "R", "I", "A", "N", "O">> >>

\* any(membro in responsavel for membro in list)
AnyMemberIn(s, list) == \E i \in DOMAIN list : Contains(s, list[i])

\* DemandasAnalyzer.analyze_resolutions_by_team.get_team (demandas_daily.py)
daily_get_team(responsavel) ==
    IF isna(responsavel) THEN "Sem Responsável"
    ELSE LET resp == Upper(responsavel.s) IN
         IF AnyMemberIn(resp, daily_equipe_julio) THEN "Equipe Julio"
         ELSE IF AnyMemberIn(resp, daily_equipe_leandro_adriano) THEN "Equipe Leandro/Adriano"
         ELSE "Outros"

(***************************************************************************)
(* Data frames.  A loaded sheet is [name, cols, rows]: cols is the sequence *)
(* of column labels (Text, or NaN for a header that is not text), a row is  *)
(* a sequence of cells aligned with cols.                                   *)
(***************************************************************************)
EQUIPE == <<"E", "Q", "U", "I", "P", "E">>
SITUACAO == <<"S", "I", "T", "U", "A", "C", "A", "O">>
SITUACAO_ACC == <<"S", "I", "T", "U", "A", "C_CEDIL", "A_TILDE", "O">>
STATUS == <<"S", "T", "A", "T", "U", "S">>
ESTADO == <<"E", "S", "T", "A", "D", "O">>
DATA == <<"D", "A", "T", "A">>
RESOLUCAO == <<"R", "E", "S", "O", "L", "U", "C", "A", "O">>
DataMixed == <<"D", "a", "t", "a">>
ATIVO_RECEPTIVO == <<"A", "T", "I", "V", "O", "/", "R", "E", "C", "E", "P", "T", "I", "V", "O">>
RESPONSAVEL == <<"R", "E", "S", "P", "O", "N", "S", "A", "V", "E", "L">>

RESOLVID == <<"R", "E", "S", "O", "L", "V", "I", "D">>
FINALIZADO == <<"F", "I", "N", "A", "L", "I", "Z", "A", "D", "O">>
CONCLUIDO_ACC == <<"C", "O", "N", "C", "L", "U", "I_ACUTE", "D", "O">>
ANALIS == <<"A", "N", "A", "L", "I", "S">>
ANALISE_ACC == <<"A", "N", "A_ACUTE", "L", "I", "S", "E">>
QUITAD == <<"Q", "U", "I", "T", "A", "D">>
APROVAD == <<"A", "P", "R", "O", "V", "A", "D">>
PENDENT == <<"P", "E", "N", "D", "E", "N", "T">>
ATIVO == <<"A", "T", "I", "V", "O">>
RECEPTIVO == <<"R", "E", "C", "E", "P", "T", "I", "V", "O">>

\* the team argument None
None == [k |-> "none", s |-> <<>>, d |-> 0]

\* col in df.columns
HasCol(df, name) == \E i \in DOMAIN df.cols : df.cols[i] = Text(name)

\* position of df[col]
ColIndex(df, name) == CHOOSE i \in DOMAIN df.cols : df.cols[i] = Text(name)

\* Series.astype(str) of one cell
astype_str(c) ==
    CASE c.k = "text" -> c.s
      [] c.k = "nan" -> <<"n", "a", "n">>
      [] c.k = "nat" -> <<"N", "a", "T">>
      [] OTHER -> <<"1">>

\* pd.api.types.is_datetime64_any_dtype(df[col]): the column holds
\* timestamps only (pd.to_datetime made it so at load)
is_datetime64_any_dtype(df, i) ==
    \A r \in DOMAIN df.rows : df.rows[r][i].k \in {"date", "nat"}

\* next((col for col in df.columns if 'EQUIPE' in col.upper()), None):
\* col.upper() raises AttributeError on a label that is not text (float NaN)
RECURSIVE find_equipe_col(_, _)
find_equipe_col(cols, i) ==
    IF i > Len(cols) THEN [raised |-> FALSE, idx |-> 0]
    ELSE IF cols[i].k # "text" THEN [raised |-> TRUE, idx |-> 0]
    ELSE IF Contains(Upper(cols[i].s), EQUIPE) THEN [raised |-> FALSE, idx |-> i]
    ELSE find_equipe_col(cols, i + 1)

\* DataService.get_situacao_column and demand_dashboard.get_situacao_column
possible_columns == <<SITUACAO, SITUACAO_ACC, STATUS, ESTADO>>

RECURSIVE first_possible(_, _)
first_possible(df, k) ==
    IF k > Len(possible_columns) THEN 0
    ELSE IF HasCol(df, possible_columns[k]) THEN ColIndex(df, possible_columns[k])
    ELSE first_possible(df, k + 1)

get_situacao_column(df) == first_possible(df, 1)

\* number of rows of a frame that satisfy a mask
CountRows(rows, mask) == Cardinality({r \in DOMAIN rows : mask[r]})

RECURSIVE FilterRows(_, _)
FilterRows(rows, mask) ==
    IF rows = <<>> THEN <<>>
    ELSE (IF mask[1] THEN <<Head(rows)>> ELSE <<>>)
            \o FilterRows(Tail(rows), [r \in 1..(Len(rows) - 1) |-> mask[r + 1]])

ZeroMetrics ==
    [resolvidos |-> 0, pendente_ativo |-> 0, pendente_receptivo |-> 0,
     prioridade |-> 0, prioridade_total |-> 0, soma_prioridades |-> 0,
     analise |-> 0, analise_dia |-> 0, receptivo |-> 0, quitado_cliente |-> 0,
     quitado |-> 0, aprovados |-> 0]

MetricNames == DOMAIN ZeroMetrics

\* team.upper() == cell.astype(str).str.upper()
team_mask(rows, idx, team) ==
    [r \in DOMAIN rows |-> Upper(astype_str(rows[r][idx])) = Upper(team.s)]

\* date_mask |= (df[col].dt.date == date.date()) over the date columns
date_mask(df, rows, date_columns, date) ==
    [r \in DOMAIN rows |->
        \E n \in date_columns :
            /\ HasCol(df, n)
            /\ is_datetime64_any_dtype(df, ColIndex(df, n))
            /\ rows[r][ColIndex(df, n)].k = "date"
            /\ rows[r][ColIndex(df, n)].d = date]

service_date_columns == {DATA, RESOLUCAO, DataMixed}

\* counters that read the channel from the status text when the sheet has
\* no ATIVO/RECEPTIVO column
sheet_counts_from_status(df, df_date, situacao_col, metrics) ==
    LET situacao == [r \in DOMAIN df_date |-> Upper(astype_str(df_date[r][situacao_col]))]
        has(pats) == [r \in DOMAIN df_date |-> ContainsAny(situacao[r], pats)]
        ar == IF HasCol(df, ATIVO_RECEPTIVO) THEN ColIndex(df, ATIVO_RECEPTIVO) ELSE situacao_col
        channel == [r \in DOMAIN df_date |-> Upper(astype_str(df_date[r][ar]))]
        pendente(p) == [r \in DOMAIN df_date |-> has({PENDENT})[r] /\ Contains(channel[r], p)]
    IN [metrics EXCEPT
          !.resolvidos = @ + CountRows(df_date, has({RESOLVID, FINALIZADO, CONCLUIDO_ACC})),
          !.analise = @ + CountRows(df_date, has({ANALIS, ANALISE_ACC})),
          !.quitado = @ + CountRows(df_date, has({QUITAD})),
          !.aprovados = @ + CountRows(df_date, has({APROVAD})),
          !.pendente_ativo = @ + CountRows(df_date, pendente(ATIVO)),
          !.pendente_receptivo = @ + CountRows(df_date, pendente(RECEPTIVO)),
          !.receptivo = @ + CountRows(df_date,
                [r \in DOMAIN df_date |-> Contains(channel[r], RECEPTIVO)])]

\* counters that put a row into one category only, the first that matches
sheet_counts_exclusive(df, df_date, situacao_col, metrics) ==
    LET situacao == [r \in DOMAIN df_date |-> Upper(astype_str(df_date[r][situacao_col]))]
        has(pats) == [r \in DOMAIN df_date |-> ContainsAny(situacao[r], pats)]
        resolvido_mask == has({RESOLVID, FINALIZADO, CONCLUIDO_ACC})
        analise_mask == [r \in DOMAIN df_date |->
                            ~resolvido_mask[r] /\ has({ANALIS, ANALISE_ACC})[r]]
        quitado_mask == [r \in DOMAIN df_date |->
                            ~resolvido_mask[r] /\ ~analise_mask[r] /\ has({QUITAD})[r]]
        aprovado_mask == [r \in DOMAIN df_date |->
                            /\ ~resolvido_mask[r] /\ ~analise_mask[r] /\ ~quitado_mask[r]
                            /\ has({APROVAD})[r]]
    IN [metrics EXCEPT
          !.resolvidos = @ + CountRows(df_date, resolvido_mask),
          !.analise = @ + CountRows(df_date, analise_mask),
          !.quitado = @ + CountRows(df_date, quitado_mask),
          !.aprovados = @ + CountRows(df_date, aprovado_mask)]

\* counters whose inbound total leaves the pending records out
sheet_counts_inbound_not_pending(df, df_date, situacao_col, metrics) ==
    LET situacao == [r \in DOMAIN df_date |-> Upper(astype_str(df_date[r][situacao_col]))]
        has(pats) == [r \in DOMAIN df_date |-> ContainsAny(situacao[r], pats)]
        m1 == [metrics EXCEPT
                 !.resolvidos = @ + CountRows(df_date, has({RESOLVID, FINALIZADO, CONCLUIDO_ACC})),
                 !.analise = @ + CountRows(df_date, has({ANALIS, ANALISE_ACC})),
                 !.quitado = @ + CountRows(df_date, has({QUITAD})),
                 !.aprovados = @ + CountRows(df_date, has({APROVAD}))]
    IN IF HasCol(df, ATIVO_RECEPTIVO)
       THEN LET ar == ColIndex(df, ATIVO_RECEPTIVO)
                ativo_receptivo == [r \in DOMAIN df_date |-> Upper(astype_str(df_date[r][ar]))]
                pendente_mask == has({PENDENT})
                ativo_mask == [r \in DOMAIN df_date |-> Contains(ativo_receptivo[r], ATIVO)]
                receptivo_mask == [r \in DOMAIN df_date |-> Contains(ativo_receptivo[r], RECEPTIVO)]
            IN [m1 EXCEPT
                 !.pendente_ativo = @ + CountRows(df_date,
                        [r \in DOMAIN df_date |-> pendente_mask[r] /\ ativo_mask[r]]),
                 !.pendente_receptivo = @ + CountRows(df_date,
                        [r \in DOMAIN df_date |-> pendente_mask[r] /\ receptivo_mask[r]]),
                 !.receptivo = @ + CountRows(df_date,
                        [r \in DOMAIN df_date |-> receptivo_mask[r] /\ ~pendente_mask[r]])]
       ELSE m1

\* the counters one sheet adds (data_service.py lines 151-177)
sheet_counts(df, df_date, situacao_col, metrics) ==
    LET situacao == [r \in DOMAIN df_date |-> Upper(astype_str(df_date[r][situacao_col]))]
        has(pats) == [r \in DOMAIN df_date |-> ContainsAny(situacao[r], pats)]
        m1 == [metrics EXCEPT
                 !.resolvidos = @ + CountRows(df_date, has({RESOLVID, FINALIZADO, CONCLUIDO_ACC})),
                 !.analise = @ + CountRows(df_date, has({ANALIS, ANALISE_ACC})),
                 !.quitado = @ + CountRows(df_date, has({QUITAD})),
                 !.aprovados = @ + CountRows(df_date, has({APROVAD}))]
    IN IF HasCol(df, ATIVO_RECEPTIVO)
       THEN LET ar == ColIndex(df, ATIVO_RECEPTIVO)
                ativo_receptivo == [r \in DOMAIN df_date |-> Upper(astype_str(df_date[r][ar]))]
                pendente_mask == has({PENDENT})
                ativo_mask == [r \in DOMAIN df_date |-> Contains(ativo_receptivo[r], ATIVO)]
                receptivo_mask == [r \in DOMAIN df_date |-> Contains(ativo_receptivo[r], RECEPTIVO)]
            IN [m1 EXCEPT
                 !.pendente_ativo = @ + CountRows(df_date,
                        [r \in DOMAIN df_date |-> pendente_mask[r] /\ ativo_mask[r]]),
                 !.pendente_receptivo = @ + CountRows(df_date,
                        [r \in DOMAIN df_date |-> pendente_mask[r] /\ receptivo_mask[r]]),
                 !.receptivo = @ + CountRows(df_date, receptivo_mask)]
       ELSE m1

\* one iteration of the loop of get_daily_metrics over self.dfs
service_sheet(df, date, team, metrics) ==
    IF df.rows = <<>> THEN [raised |-> FALSE, m |-> metrics]
    ELSE LET eq == IF team.k = "text" /\ team.s # <<>>
                   THEN find_equipe_col(df.cols, 1)
                   ELSE [raised |-> FALSE, idx |-> 0]
         IN IF eq.raised THEN [raised |-> TRUE, m |-> metrics]
            ELSE LET df_temp == IF eq.idx # 0
                                THEN FilterRows(df.rows, team_mask(df.rows, eq.idx, team))
                                ELSE df.rows
                     situacao_col == get_situacao_column(df)
                 IN IF situacao_col = 0 THEN [raised |-> FALSE, m |-> metrics]
                    ELSE LET df_date == FilterRows(df_temp,
                                 date_mask(df, df_temp, service_date_columns, date))
                         IN IF df_date = <<>> THEN [raised |-> FALSE, m |-> metrics]
                            ELSE [raised |-> FALSE,
                                  m |-> sheet_counts(df, df_date, situacao_col, metrics)]

RECURSIVE service_loop(_, _, _, _)
service_loop(frames, date, team, metrics) ==
    IF frames = <<>> THEN [raised |-> FALSE, m |-> metrics]
    ELSE LET one == service_sheet(Head(frames), date, team, metrics)
         IN IF one.raised THEN [raised |-> TRUE, m |-> ZeroMetrics]
            ELSE service_loop(Tail(frames), date, team, one.m)

\* DataService.get_daily_metrics: the except clause logs and re-raises, so a
\* raise in one sheet leaves no result
get_daily_metrics(frames, date, team) == service_loop(frames, date, team, ZeroMetrics)

(***************************************************************************)
(* DataService.get_teams                                                    *)
(***************************************************************************)
\* the characters in code point order: sorted() compares str by code point
CodePoints == <<" ", "/", "1">> \o UpperAscii \o LowerAscii
                \o <<"ORD_M", "A_ACUTE", "A_TILDE", "C_CEDIL", "I_ACUTE", "U_ACUTE",
                     "a_acute", "a_tilde", "c_cedil", "i_acute", "u_acute",
                     "COMB_ACUTE", "COMB_TILDE", "COMB_CEDIL", "STAR">>

OrdTable == [c \in Range(CodePoints) |-> CHOOSE i \in DOMAIN CodePoints : CodePoints[i] = c]

Ord(c) == OrdTable[c]

\* a < b on str
RECURSIVE StrLess(_, _)
StrLess(a, b) ==
    IF b = <<>> THEN FALSE
    ELSE IF a = <<>> THEN TRUE
    ELSE IF Head(a) = Head(b) THEN StrLess(Tail(a), Tail(b))
    ELSE Ord(Head(a)) < Ord(Head(b))

\* sorted(list(S))
RECURSIVE Sorted(_)
Sorted(S) ==
    IF S = {} THEN <<>>
    ELSE LET least == CHOOSE x \in S : \A y \in S \ {x} : StrLess(x, y)
         IN <<least>> \o Sorted(S \ {least})

\* the labels of the column with the missing cells kept
column_labels_keepna(df, idx) == {df.rows[r][idx].s : r \in DOMAIN df.rows}

\* df[equipe_col].dropna().unique()
column_labels(df, idx) ==
    {df.rows[r][idx].s : r \in {q \in DOMAIN df.rows : ~isna(df.rows[q][idx])}}

RECURSIVE teams_loop(_, _)
teams_loop(frames, teams) ==
    IF frames = <<>> THEN [raised |-> FALSE, teams |-> Sorted(teams)]
    ELSE LET eq == find_equipe_col(Head(frames).cols, 1)
         IN IF eq.raised THEN [raised |-> TRUE, teams |-> <<>>]
            ELSE teams_loop(Tail(frames),
                            IF eq.idx # 0
                            THEN teams \cup column_labels(Head(frames), eq.idx)
                            ELSE teams)

get_teams(frames) == teams_loop(frames, {})

(***************************************************************************)
(* DataService.get_date_range                                               *)
(***************************************************************************)
\* datetime.max and datetime.min as day numbers
DatetimeMax == 9999
DatetimeMin == 0

\* the non-null timestamps of df[col]
column_dates(df, idx) ==
    {df.rows[r][idx].d : r \in {q \in DOMAIN df.rows : df.rows[q][idx].k = "date"}}

SetMin(S) == CHOOSE x \in S : \A y \in S : x <= y
SetMax(S) == CHOOSE x \in S : \A y \in S : x >= y

range_date_columns == <<DATA, RESOLUCAO, DataMixed>>

\* the second test written as elif: the maximum is not looked at when the
\* minimum moved
RECURSIVE range_cols_elif(_, _, _)
range_cols_elif(df, k, acc) ==
    IF k > Len(range_date_columns) THEN acc
    ELSE IF HasCol(df, range_date_columns[k])
             /\ is_datetime64_any_dtype(df, ColIndex(df, range_date_columns[k]))
         THEN LET ds == column_dates(df, ColIndex(df, range_date_columns[k]))
                  moved == ds # {} /\ SetMin(ds) < acc.min_date
                  lo == IF moved THEN SetMin(ds) ELSE acc.min_date
                  hi == IF ~moved /\ ds # {} /\ SetMax(ds) > acc.max_date
                        THEN SetMax(ds) ELSE acc.max_date
              IN range_cols_elif(df, k + 1, [min_date |-> lo, max_date |-> hi])
         ELSE range_cols_elif(df, k + 1, acc)

\* the inner loop over date_columns for one sheet
RECURSIVE range_cols(_, _, _)
range_cols(df, k, acc) ==
    IF k > Len(range_date_columns) THEN acc
    ELSE IF HasCol(df, range_date_columns[k])
             /\ is_datetime64_any_dtype(df, ColIndex(df, range_date_columns[k]))
         THEN LET ds == column_dates(df, ColIndex(df, range_date_columns[k]))
                  lo == IF ds # {} /\ SetMin(ds) < acc.min_date THEN SetMin(ds) ELSE acc.min_date
                  hi == IF ds # {} /\ SetMax(ds) > acc.max_date THEN SetMax(ds) ELSE acc.max_date
              IN range_cols(df, k + 1, [min_date |-> lo, max_date |-> hi])
         ELSE range_cols(df, k + 1, acc)

RECURSIVE range_loop(_, _)
range_loop(frames, acc) ==
    IF frames = <<>> THEN acc
    ELSE range_loop(Tail(frames), range_cols(Head(frames), 1, acc))

get_date_range(frames) ==
    range_loop(frames, [min_date |-> DatetimeMax, max_date |-> DatetimeMin])

(***************************************************************************)
(* demand_dashboard.calculate_daily_metrics                                 *)
(***************************************************************************)
chunk_size == 1000

DATA_CONCLUSAO == <<"D", "A", "T", "A", " ", "C", "O", "N", "C", "L", "U", "S", "A_TILDE", "O">>
DATA_INICIO == <<"D", "A", "T", "A", " ", "I", "N", "I_ACUTE", "C", "I", "O">>

dashboard_date_columns == {DATA, RESOLUCAO, DataMixed, DATA_CONCLUSAO, DATA_INICIO}

\* situacao_series.str.strip() comes after upper()
dashboard_counts(df, df_date, situacao_col, metrics) ==
    LET stripped == [r \in DOMAIN df_date |->
                        [df_date[r] EXCEPT ![situacao_col] =
                            Text(Strip(Upper(astype_str(df_date[r][situacao_col]))))]]
    IN sheet_counts(df, stripped, situacao_col, metrics)

\* metrics['Analise_Dia'] += len(df_date[analise_mask &
\*     (df_date[date_columns[0]].dt.date == date.date())]), under
\* if analise_mask.any(); df_date['DATA'] raises KeyError without the column
analise_dia(df, df_date, situacao_col, date, metrics) ==
    LET situacao == [r \in DOMAIN df_date |->
                        Strip(Upper(astype_str(df_date[r][situacao_col])))]
        analise_mask == [r \in DOMAIN df_date |->
                            ContainsAny(situacao[r], {ANALIS, ANALISE_ACC})]
    IN IF ~(\E r \in DOMAIN df_date : analise_mask[r]) THEN [raised |-> FALSE, m |-> metrics]
       ELSE IF ~HasCol(df, DATA) \/ ~is_datetime64_any_dtype(df, ColIndex(df, DATA))
       THEN [raised |-> TRUE, m |-> metrics]
       ELSE [raised |-> FALSE,
             m |-> [metrics EXCEPT !.analise_dia = @ + CountRows(df_date,
                      [r \in DOMAIN df_date |->
                          /\ analise_mask[r]
                          /\ df_date[r][ColIndex(df, DATA)].k = "date"
                          /\ df_date[r][ColIndex(df, DATA)].d = date])]]

\* the body of the loop over chunks for df.iloc[chunk_start:chunk_end]
dashboard_chunk(df, df_chunk, date, selected_team, metrics) ==
    LET eq == IF selected_team.k = "text" /\ selected_team.s # <<>>
              THEN find_equipe_col(df.cols, 1)
              ELSE [raised |-> FALSE, idx |-> 0]
    IN IF eq.raised THEN [raised |-> TRUE, m |-> metrics]
       ELSE LET filtered == IF eq.idx # 0
                            THEN FilterRows(df_chunk, team_mask(df_chunk, eq.idx, selected_team))
                            ELSE df_chunk
                situacao_col == get_situacao_column(df)
                df_date == FilterRows(filtered,
                              date_mask(df, filtered, dashboard_date_columns, date))
            IN IF df_date = <<>> \/ situacao_col = 0 THEN [raised |-> FALSE, m |-> metrics]
               ELSE LET counted == dashboard_counts(df, df_date, situacao_col, metrics)
                    IN [raised |-> FALSE,
                        m |-> analise_dia(df, df_date, situacao_col, date, counted).m]

\* a chunk that ends one row too early
chunk_end_of_short(chunk_start, size, n) ==
    IF chunk_start + size < n THEN chunk_start + size - 1 ELSE n

chunk_end_of(chunk_start, size, n) == IF chunk_start + size < n THEN chunk_start + size ELSE n

\* for chunk_start in range(0, len(df), chunk_size)
RECURSIVE dashboard_chunks(_, _, _, _, _, _)
dashboard_chunks(df, chunk_start, size, date, selected_team, metrics) ==
    IF chunk_start >= Len(df.rows) THEN [raised |-> FALSE, m |-> metrics]
    ELSE LET chunk_end == chunk_end_of(chunk_start, size, Len(df.rows))
             one == dashboard_chunk(df, SubSeq(df.rows, chunk_start + 1, chunk_end),
                                    date, selected_team, metrics)
         IN IF one.raised THEN one
            ELSE dashboard_chunks(df, chunk_start + size, size, date, selected_team, one.m)

\* the outer except returns the counters reached when a sheet raised
RECURSIVE dashboard_loop(_, _, _, _, _)
dashboard_loop(frames, size, date, selected_team, metrics) ==
    IF frames = <<>> THEN metrics
    ELSE IF Head(frames).rows = <<>>
    THEN dashboard_loop(Tail(frames), size, date, selected_team, metrics)
    ELSE LET one == dashboard_chunks(Head(frames), 0, size, date, selected_team, metrics)
         IN IF one.raised THEN one.m
            ELSE dashboard_loop(Tail(frames), size, date, selected_team, one.m)

batched_daily_metrics(frames, size, date, selected_team) ==
    dashboard_loop(frames, size, date, selected_team, ZeroMetrics)

calculate_daily_metrics(frames, date, selected_team) ==
    batched_daily_metrics(frames, chunk_size, date, selected_team)

(***************************************************************************)
(* DataService._load_data: the body of the loop over xls.sheet_names        *)
(***************************************************************************)
\* a header cell that is a number
Num(n) == [k |-> "num", s |-> <<>>, d |-> n]

\* chunk.columns.str.strip().str.upper(): a label that is not text becomes NaN
clean_columns(cols) ==
    [i \in DOMAIN cols |-> IF cols[i].k = "text" THEN Text(Upper(Strip(cols[i].s))) ELSE NaN]

\* the .str accessor raises AttributeError when no label is text
columns_are_str(cols) == \E i \in DOMAIN cols : cols[i].k = "text"

\* pd.to_datetime(cell, errors='coerce'); the texts of the date columns of
\* the sheets below are not dates
to_datetime(c) == IF c.k = "date" THEN c ELSE NaT

load_date_columns == {DATA, RESOLUCAO, DataMixed}

\* one chunk after the renaming and the date conversion
load_chunk(cols, rows) ==
    [r \in DOMAIN rows |->
        [i \in DOMAIN cols |->
            IF cols[i].k = "text" /\ cols[i].s \in load_date_columns
            THEN to_datetime(rows[r][i])
            ELSE rows[r][i]]]

\* the chunks pd.read_excel(..., chunksize=n) hands out when the read
\* succeeds; a read that raises is the sheet field readable = FALSE
RECURSIVE read_chunks(_, _)
read_chunks(rows, n) ==
    IF rows = <<>> THEN <<>>
    ELSE IF Len(rows) <= n THEN <<rows>>
    ELSE <<SubSeq(rows, 1, n)>> \o read_chunks(SubSeq(rows, n + 1, Len(rows)), n)

\* pd.concat(chunks, ignore_index=True)
RECURSIVE concat(_)
concat(chunks) == IF chunks = <<>> THEN <<>> ELSE Head(chunks) \o concat(Tail(chunks))

load_chunksize == 1000

\* the try block for one sheet: [stored, df]; stored is FALSE when the
\* sheet raised (logged, continue) or gave no chunk
load_sheet(name, raw) ==
    LET cols == clean_columns(raw.cols)
        raw_chunks == read_chunks(raw.rows, load_chunksize)
        chunks == [c \in DOMAIN raw_chunks |-> load_chunk(cols, raw_chunks[c])]
        df == [name |-> name, cols |-> cols, rows |-> concat(chunks)]
    IN IF ~raw.readable THEN [stored |-> FALSE, df |-> df]
       ELSE IF raw_chunks # <<>> /\ ~columns_are_str(raw.cols) THEN [stored |-> FALSE, df |-> df]
       ELSE [stored |-> chunks # <<>>, df |-> df]

(***************************************************************************)
(* The sheets a workbook may hold                                           *)
(***************************************************************************)
RESOLVIDO == <<"R", "E", "S", "O", "L", "V", "I", "D", "O">>
PENDENTE_ATIVO == <<"P", "E", "N", "D", "E", "N", "T", "E", " ", "A", "T", "I", "V", "O">>
PENDENTE == <<"P", "E", "N", "D", "E", "N", "T", "E">>
EM_ANALISE == <<"E", "M", " ", "A", "N", "A", "L", "I", "S", "E">>
em_analise_acc == <<"e", "m", " ", "a", "n", "a_acute", "l", "i", "s", "e", " ">>
concluido_quitado == <<"c", "o", "n", "c", "l", "u", "i_acute", "d", "o", " ", "q", "u", "i", "t", "a", "d", "o">>
QUITADO == <<"Q", "U", "I", "T", "A", "D", "O">>
APROVADO == <<"A", "P", "R", "O", "V", "A", "D", "O">>
JULIO == <<"J", "U", "L", "I", "O">>
LEANDRO == <<"L", "E", "A", "N", "D", "R", "O">>
TeamJ == <<"T", "e", "a", "m", " ", "J">>
TeamL == <<"T", "e", "a", "m", " ", "L">>
TEAM_J == <<"T", "E", "A", "M", " ", "J">>

\* 2025-01-<day> as a day number
Jan(day) == day

Day10 == Jan(10)
Day11 == Jan(11)

Layouts ==
    [full |-> [cols |-> <<Text(<<" ", "D", "a", "t", "a">>), Text(<<"E", "q", "u", "i", "p", "e">>),
                          Text(SITUACAO), Text(ATIVO_RECEPTIVO)>>,
               kinds |-> << <<Date(Day10), Text(TeamJ), Text(RESOLVIDO), Text(ATIVO)>>,
                            <<Date(Day10), Text(TeamL), Text(PENDENTE), Text(RECEPTIVO)>>,
                            <<Date(Day11), Text(TEAM_J), Text(em_analise_acc), NaN>>,
                            <<Text(<<"x">>), NaN, Text(PENDENTE), Text(ATIVO)>> >>],
     noteam |-> [cols |-> <<Text(RESPONSAVEL), Text(SITUACAO), Text(DATA)>>,
                 kinds |-> << <<Text(JULIO), Text(RESOLVIDO), Date(Day10)>>,
                              <<Text(LEANDRO), Text(PENDENTE_ATIVO), Date(Day10)>> >>],
     nostatus |-> [cols |-> <<Text(DATA), Text(EQUIPE)>>,
                   kinds |-> << <<Date(Day10), Text(TeamJ)>> >>],
     twodates |-> [cols |-> <<Text(DATA), Text(RESOLUCAO), Text(EQUIPE), Text(STATUS)>>,
                   kinds |-> << <<Date(Day10), Date(Day11), Text(TeamJ), Text(APROVADO)>>,
                                <<NaT, Date(Day10), Text(TeamL), Text(EM_ANALISE)>> >>],
     resolonly |-> [cols |-> <<Text(RESOLUCAO), Text(SITUACAO)>>,
                    kinds |-> << <<Date(Day10), Text(EM_ANALISE)>>,
                                 <<Date(Day10), Text(concluido_quitado)>> >>],
     numheader |-> [cols |-> <<Num(2025), Text(EQUIPE), Text(SITUACAO), Text(DATA)>>,
                    kinds |-> << <<NaN, Text(TeamJ), Text(QUITADO), Date(Day10)>> >>],
     numnostatus |-> [cols |-> <<Num(2025), Text(DATA), Text(EQUIPE)>>,
                      kinds |-> << <<NaN, Date(Day10), Text(TeamL)>> >>],
     bothchannels |-> [cols |-> <<Text(DATA), Text(SITUACAO), Text(ATIVO_RECEPTIVO)>>,
                       kinds |-> << <<Date(Day11), Text(PENDENTE), Text(ATIVO_RECEPTIVO)>> >>]]

\* the increasing index sequences of length at most n over 1..k
Ascending(k, n) ==
    {q \in UNION {[1..m -> 1..k] : m \in 0..n} :
        \A i \in DOMAIN q : \A j \in DOMAIN q : i < j => q[i] < q[j]}

SheetsOf(l) ==
    {[readable |-> TRUE, cols |-> Layouts[l].cols,
      rows |-> [i \in DOMAIN q |-> Layouts[l].kinds[q[i]]]] :
        q \in Ascending(Len(Layouts[l].kinds), MaxRows) \ {<<>>}}

Unreadable == [readable |-> FALSE, cols |-> Layouts.full.cols, rows |-> <<Layouts.full.kinds[1]>>]
EmptySheet == [readable |-> TRUE, cols |-> Layouts.full.cols, rows |-> <<>>]

RawSheets == UNION {SheetsOf(l) : l \in DOMAIN Layouts} \cup {Unreadable, EmptySheet}

Dates == {Day10, Day11}
TeamArgs == {None, Text(TeamJ), Text(TeamL)}

NoRet == [op |-> "none", date |-> 0, team |-> None, raised |-> FALSE, m |-> ZeroMetrics,
          teams |-> <<>>, min_date |-> 0, max_date |-> 0]

(***************************************************************************)
(* dashboard/data_processor.py: DataProcessor.  A csv frame is [cols, rows] *)
(* with the header texts in cols; read_csv gives a missing cell as NaN.     *)
(***************************************************************************)
DATA_RESOLUCAO == <<"D", "A", "T", "A", " ", "R", "E", "S", "O", "L", "U", "C", "A", "O">>
DT_RESOLUCAO == <<"D", "T", "_", "R", "E", "S", "O", "L", "U", "C", "A", "O">>
RESOLU == <<"R", "E", "S", "O", "L", "U">>
RESP == <<"R", "E", "S", "P">>
ATENDENTE == <<"A", "T", "E", "N", "D", "E", "N", "T", "E">>
ATEND == <<"A", "T", "E", "N", "D">>
RESPONS == <<"R", "E", "S", "P", "O", "N", "S">>
SITU == <<"S", "I", "T", "U">>
UNNAMED_9 == <<"U", "N", "N", "A", "M", "E", "D", ":", " ", "9">>
NAO_INFORMADO == <<"N", "A_TILDE", "O", " ", "I", "N", "F", "O", "R", "M", "A", "D", "O">>
ADRIANO == <<"A", "D", "R", "I", "A", "N", "O">>
OUTROS == <<"O", "U", "T", "R", "O", "S">>

\* the standard names of the columns
resolucao == <<"r", "e", "s", "o", "l", "u", "c", "a", "o">>
responsavel == <<"r", "e", "s", "p", "o", "n", "s", "a", "v", "e", "l">>
situacao == <<"s", "i", "t", "u", "a", "c", "a", "o">>
equipe == <<"e", "q", "u", "i", "p", "e">>

\* DataProcessor.EXPECTED_COLUMNS, in the order of the dict
EXPECTED_COLUMNS ==
    << [target |-> resolucao,
        possible_names |-> <<RESOLUCAO, DATA, DATA_RESOLUCAO, DT_RESOLUCAO, RESOLU>>],
       [target |-> responsavel,
        possible_names |-> <<RESPONSAVEL, RESP, ATENDENTE, ATEND, RESPONS>>],
       [target |-> situacao,
        possible_names |-> <<SITUACAO, STATUS, SITU, UNNAMED_9, <<" ", " ">> >>] >>

\* DataProcessor.TEAM_MAPPING, in the order of the dict
TEAM_MAPPING ==
    << [team |-> JULIO, members |-> <<JULIO>>],
       [team |-> LEANDRO, members |-> <<LEANDRO>>],
       [team |-> ADRIANO, members |-> <<ADRIANO>>] >>

\* the loop over EXPECTED_COLUMNS.items() for one column: the first target
\* one of whose names occurs in col_upper, <<>> when the loop ends without break
RECURSIVE target_of(_, _)
target_of(col_upper, k) ==
    IF k > Len(EXPECTED_COLUMNS) THEN <<>>
    ELSE IF \E i \in DOMAIN EXPECTED_COLUMNS[k].possible_names :
                Contains(col_upper, EXPECTED_COLUMNS[k].possible_names[i])
         THEN EXPECTED_COLUMNS[k].target
         ELSE target_of(col_upper, k + 1)

\* DataProcessor.identify_columns: the dict mapping, as the sequence of the
\* values mapping[col] along columns (<<>> where col is not a key)
identify_columns(columns) ==
    [i \in DOMAIN columns |-> target_of(Strip(Upper(columns[i].s)), 1)]

\* df.rename(columns=self.column_mapping)
rename(columns, mapping) ==
    [i \in DOMAIN columns |-> IF mapping[i] # <<>> THEN Text(mapping[i]) ELSE columns[i]]

\* the number of columns that carry a label
label_count(cols, name) == Cardinality({i \in DOMAIN cols : cols[i] = Text(name)})

\* df[col].dtype == 'object': the column read from the csv holds a text
is_object(rows, i) == \E r \in DOMAIN rows : rows[r][i].k \in {"text", "date"}

\* Series.fillna('NÃO INFORMADO') of one cell
fillna(c) == IF isna(c) THEN Text(NAO_INFORMADO) ELSE c

\* the loop over df.columns that fills and converts the object columns
fill_object_columns(rows, n) ==
    [r \in DOMAIN rows |->
        [i \in 1..n |-> IF is_object(rows, i) THEN fillna(rows[r][i]) ELSE rows[r][i]]]

\* DataProcessor._map_to_team
RECURSIVE map_to_team_from(_, _)
map_to_team_from(resp, k) ==
    IF k > Len(TEAM_MAPPING) THEN OUTROS
    ELSE IF InList(resp, TEAM_MAPPING[k].members) THEN TEAM_MAPPING[k].team
    ELSE map_to_team_from(resp, k + 1)

map_to_team(resp) == map_to_team_from(resp, 1)

\* .fillna('NÃO INFORMADO').astype(str).str.strip().str.upper() of one cell
clean_text(c) == Text(Upper(Strip(astype_str(fillna(c)))))

\* a dropna that drops nothing
notna_always(c) == TRUE

\* the rows df.dropna(subset=[col]) keeps: the cell under col is not null
notna(c) == ~isna(c)

\* DataProcessor.process_dataframe: [raised, mapping, cols, index, rows].
\* index holds the positions, in the input, of the rows of the returned
\* frame.  Two columns with one standard name make df[name] a DataFrame:
\* pd.to_datetime raises ValueError on it and .str AttributeError; without a
\* 'resolucao' column dropna(subset=['resolucao']) raises KeyError; the
\* except clause logs and re-raises.
process_dataframe(df) ==
    LET n == Len(df.cols)
        filled == fill_object_columns(df.rows, n)
        column_mapping == identify_columns(df.cols)
        cols == rename(df.cols, column_mapping)
        col(name) == CHOOSE i \in 1..n : cols[i] = Text(name)
        has(name) == label_count(cols, name) > 0
        dated == [r \in DOMAIN filled |->
                    [i \in 1..n |-> IF cols[i] = Text(resolucao)
                                    THEN to_datetime(filled[r][i]) ELSE filled[r][i]]]
        cleaned == [r \in DOMAIN dated |->
                      [i \in 1..n |-> IF cols[i] \in {Text(responsavel), Text(situacao)}
                                      THEN clean_text(dated[r][i]) ELSE dated[r][i]]]
        teamed == IF has(responsavel)
                  THEN [r \in DOMAIN cleaned |->
                           Append(cleaned[r], Text(map_to_team(cleaned[r][col(responsavel)].s)))]
                  ELSE cleaned
        out_cols == IF has(responsavel) THEN Append(cols, Text(equipe)) ELSE cols
        dated_mask == [r \in DOMAIN teamed |-> notna(teamed[r][col(resolucao)])]
        failed == [raised |-> TRUE, mapping |-> column_mapping, cols |-> <<>>,
                   index |-> <<>>, rows |-> <<>>]
    IN IF label_count(cols, resolucao) # 1 THEN failed
       ELSE IF label_count(cols, responsavel) > 1 THEN failed
       ELSE IF label_count(cols, situacao) > 1 THEN failed
       ELSE [raised |-> FALSE, mapping |-> column_mapping, cols |-> out_cols,
             index |-> FilterRows([r \in DOMAIN teamed |-> r], dated_mask),
             rows |-> FilterRows(teamed, dated_mask)]

(***************************************************************************)
(* ml_corrections/analyze_demands_timeline.py: load_and_prepare_data        *)
(***************************************************************************)
RESOL == <<"R", "E", "S", "O", "L">>
RESOLUCAO_ACC == <<"R", "E", "S", "O", "L", "U", "C_CEDIL", "A_TILDE", "O">>
RESPONSAVEL_ACC == <<"R", "E", "S", "P", "O", "N", "S", "A_ACUTE", "V", "E", "L">>
RESOLV == <<"R", "E", "S", "O", "L", "V">>
APROV == <<"A", "P", "R", "O", "V">>
QUIT == <<"Q", "U", "I", "T">>

resolution_patterns == <<RESOL, RESOLUCAO, RESOLUCAO_ACC>>
responsible_patterns == <<RESP, RESPONSAVEL, RESPONSAVEL_ACC>>
situation_patterns == <<SITU, STATUS, SITUACAO, SITUACAO_ACC>>
status_filter == {RESOLV, APROV, QUIT}

\* find_column(df, patterns): the position of matches[0] for the first
\* pattern that has matches, 0 for None
RECURSIVE find_column_from(_, _, _)
find_column_from(columns, patterns, k) ==
    IF k > Len(patterns) THEN 0
    ELSE LET matches == {i \in DOMAIN columns : Contains(Upper(columns[i].s), patterns[k])}
         IN IF matches # {} THEN SetMin(matches)
            ELSE find_column_from(columns, patterns, k + 1)

find_column(df, patterns) == find_column_from(df.cols, patterns, 1)

\* the three columns found in one file
found_columns(df) ==
    [resolution_col |-> find_column(df, resolution_patterns),
     responsible_col |-> find_column(df, responsible_patterns),
     situation_col |-> find_column(df, situation_patterns)]

\* df.rename(columns=rename_map): a later key of rename_map replaces an
\* equal earlier one
timeline_rename(df) ==
    LET f == found_columns(df)
    IN [i \in DOMAIN df.cols |->
          IF i = f.situation_col THEN Text(SITUACAO_ACC)
          ELSE IF i = f.responsible_col THEN Text(RESPONSAVEL_ACC)
          ELSE IF i = f.resolution_col THEN Text(RESOLUCAO_ACC)
          ELSE df.cols[i]]

\* the cell of a row of pd.concat([df_julio, df_leandro]) under a label:
\* NaN where the file of the row has no such column
combined_cell(cols, row, name) ==
    IF label_count(cols, name) = 0 THEN NaN
    ELSE row[CHOOSE i \in DOMAIN cols : cols[i] = Text(name)]

\* the rows of df_combined, each with the file and the position it came from
RECURSIVE combined_rows(_, _)
combined_rows(files, k) ==
    IF k > Len(files) THEN <<>>
    ELSE LET cols == timeline_rename(files[k])
         IN [r \in DOMAIN files[k].rows |->
                [file |-> k, row |-> r,
                 resolucao |-> to_datetime(combined_cell(cols, files[k].rows[r], RESOLUCAO_ACC)),
                 responsavel |-> combined_cell(cols, files[k].rows[r], RESPONSAVEL_ACC),
                 situacao |-> combined_cell(cols, files[k].rows[r], SITUACAO_ACC)]]
             \o combined_rows(files, k + 1)

\* sort_values('RESOLUÇÃO', ascending=False): equal dates keep their order
RECURSIVE sort_values_desc(_)
sort_values_desc(rows) ==
    IF rows = <<>> THEN <<>>
    ELSE LET first == CHOOSE i \in DOMAIN rows :
                        /\ \A j \in DOMAIN rows : rows[j].resolucao.d <= rows[i].resolucao.d
                        /\ \A j \in 1..(i - 1) : rows[j].resolucao.d < rows[i].resolucao.d
         IN <<rows[first]>>
              \o sort_values_desc(SubSeq(rows, 1, first - 1) \o SubSeq(rows, first + 1, Len(rows)))

\* df_combined.dropna(subset=['RESOLUÇÃO'])
dropna_resolucao(rows) ==
    FilterRows(rows, [r \in DOMAIN rows |-> notna(rows[r].resolucao)])

\* df_combined[df_combined['SITUAÇÃO'].str.contains('|'.join(status_filter),
\* case=False, na=False)]
filter_status(rows) ==
    FilterRows(rows, [r \in DOMAIN rows |->
                        /\ rows[r].situacao.k = "text"
                        /\ ContainsAny(Upper(rows[r].situacao.s), status_filter)])

\* df_combined['EQUIPE'] = df_combined['RESPONSÁVEL'].apply(self.get_team)
with_equipe(x, name) ==
    [file |-> x.file, row |-> x.row, resolucao |-> x.resolucao, responsavel |-> name,
     situacao |-> x.situacao, equipe |-> get_team(name)]

\* df_combined['RESPONSÁVEL'] = df_combined['RESPONSÁVEL'].apply(self.normalize_name)
with_names(rows) ==
    [r \in DOMAIN rows |-> with_equipe(rows[r], normalize_name(rows[r].responsavel))]

\* a file lacks the resolution or the responsible column (ValueError)
column_missing(mapping) ==
    \E k \in DOMAIN mapping : mapping[k].resolution_col = 0 \/ mapping[k].responsible_col = 0

\* a label held by two columns of a file, no 'SITUAÇÃO' column in either
\* file (KeyError), or a 'SITUAÇÃO' column without any text (.str raises
\* AttributeError)
frame_raises(renamed, df_combined) ==
    \/ \E k \in DOMAIN renamed :
          \E name \in {RESOLUCAO_ACC, RESPONSAVEL_ACC, SITUACAO_ACC} :
              label_count(renamed[k], name) > 1
    \/ \A k \in DOMAIN renamed : label_count(renamed[k], SITUACAO_ACC) = 0
    \/ /\ df_combined # <<>>
       /\ \A r \in DOMAIN df_combined : df_combined[r].situacao.k \notin {"text", "date"}

\* the frame after the filters, the sort and the two apply calls
prepared(mapping, df_combined) ==
    [raised |-> FALSE, mapping |-> mapping,
     rows |-> with_names(sort_values_desc(filter_status(dropna_resolucao(df_combined))))]

\* DemandsTimelineAnalyzer.load_and_prepare_data over the two files:
\* [raised, mapping, rows]; the except clause logs and re-raises.
load_and_prepare_data(files) ==
    LET mapping == [k \in DOMAIN files |-> found_columns(files[k])]
    IN IF column_missing(mapping)
          \/ frame_raises([k \in DOMAIN files |-> timeline_rename(files[k])],
                          combined_rows(files, 1))
       THEN [raised |-> TRUE, mapping |-> mapping, rows |-> <<>>]
       ELSE prepared(mapping, combined_rows(files, 1))

\* the lists of the dict equipes of the report (lines 143-156)
report_equipe_leandro_adriano == equipe_leandro_adriano_literals
report_equipe_julio ==
    << <<"A", "D", "R", "I", "A", "N", "O">>,
       <<"A", "L", "I", "N", "E">>,
       <<"A", "N", "A", " ", "G", "E", "S", "S", "I", "C", "A">>,
       <<"A", "N", "A", " ", "L", "I", "D", "I", "A">>,
       <<"E", "L", "I", "S", "A", "N", "G", "E", "L", "A">>,
       <<"F", "E", "L", "I", "P", "E">>,
       <<"I", "G", "O", "R">>,
       <<"J", "U", "L", "I", "A", "N", "E">>,
       <<"L", "U", "A", "R", "A">>,
       <<"M", "A", "T", "H", "E", "U", "S">>,
       <<"N", "U", "N", "O">>,
       <<"P", "O", "L", "I", "A", "N", "A">>,
       <<"T", "H", "A", "L", "I", "S", "S", "O", "N">>,
       <<"Y", "U", "R", "I">> >>

\* total += len(df_combined[df_combined['RESPONSÁVEL'] == resp]) over
\* responsaveis
RECURSIVE written_total(_, _, _)
written_total(rows, responsaveis, k) ==
    IF k > Len(responsaveis) THEN 0
    ELSE Cardinality({r \in DOMAIN rows : rows[r].responsavel = Text(responsaveis[k])})
            + written_total(rows, responsaveis, k + 1)

\* len(equipe_df) for equipe_df = df_combined[df_combined['EQUIPE'] == equipe]
logged_total(rows, team) == Cardinality({r \in DOMAIN rows : rows[r].equipe = team})

\* the block under `if not df_combined.empty`: per team the TOTAL that is
\* logged and the TOTAL written to the report file of the team
team_reports(rows) ==
    IF rows = <<>> THEN <<>>
    ELSE << [equipe |-> "Equipe Leandro e Adriano",
             logged |-> logged_total(rows, "Equipe Leandro e Adriano"),
             written |-> written_total(rows, report_equipe_leandro_adriano, 1)],
            [equipe |-> "Equipe Júlio",
             logged |-> logged_total(rows, "Equipe Júlio"),
             written |-> written_total(rows, report_equipe_julio, 1)] >>

(***************************************************************************)
(* ml_corrections/apply_corrections.py: DataCorrector.  The trained model   *)
(* is one of Models: it predicts its input, it predicts one label for every *)
(* input, or one of its components raises.                                  *)
(***************************************************************************)
Models == {"keeps", "relabels", "raises"}

\* self.label_encoder.inverse_transform(self.model.predict(X))[0]
predict(model, text) == IF model = "keeps" THEN text ELSE RESOLVIDO

\* DataCorrector.correct_value: a missing value is returned as it is, and so
\* is the value when the try block raises
correct_value(model, value) ==
    IF isna(value) THEN value
    ELSE IF model = "raises" THEN value
    ELSE Text(predict(model, astype_str(value)))

\* original != corrected, with original = str(value): a str differs from
\* every value that is not a str, NaN included
differs(original, corrected) ==
    corrected.k \notin {"text", "date"} \/ astype_str(corrected) # original

\* original != corrected for the cell value
is_correction(model, value) == differs(astype_str(value), correct_value(model, value))

\* the entries corrections_made gets from one column, in the order of the rows
RECURSIVE column_corrections(_, _, _, _, _)
column_corrections(model, df, column, i, r) ==
    IF r > Len(df.rows) THEN <<>>
    ELSE (IF is_correction(model, df.rows[r][i])
          THEN << [Linha |-> r, Coluna |-> column,
                   original |-> astype_str(df.rows[r][i]),
                   corrected |-> correct_value(model, df.rows[r][i])] >>
          ELSE <<>>)
            \o column_corrections(model, df, column, i, r + 1)

\* the loop over columns_to_correct: a column that is not in df.columns is
\* skipped
RECURSIVE corrections_made(_, _, _, _)
corrections_made(model, df, columns_to_correct, k) ==
    IF k > Len(columns_to_correct) THEN <<>>
    ELSE (IF label_count(df.cols, columns_to_correct[k]) = 0 THEN <<>>
          ELSE column_corrections(model, df, columns_to_correct[k],
                                  CHOOSE i \in DOMAIN df.cols :
                                      df.cols[i] = Text(columns_to_correct[k]), 1))
            \o corrections_made(model, df, columns_to_correct, k + 1)

\* df_corrected: df.copy() with df_corrected.at[idx, column] = corrected for
\* every entry
df_corrected(model, df, columns_to_correct) ==
    [r \in DOMAIN df.rows |->
        [i \in DOMAIN df.cols |->
            IF /\ \E k \in DOMAIN columns_to_correct : df.cols[i] = Text(columns_to_correct[k])
               /\ is_correction(model, df.rows[r][i])
            THEN correct_value(model, df.rows[r][i])
            ELSE df.rows[r][i]]]

\* DataCorrector.correct_dataframe: (df_corrected, corrections_made); df is
\* only read
correct_dataframe(model, df, columns_to_correct) ==
    [df |-> df,
     rows |-> df_corrected(model, df, columns_to_correct),
     corrections |-> corrections_made(model, df, columns_to_correct, 1)]

\* the lists main and AutoCorrection.correct_data pass, and the list of the
\* two labels as the csv files spell them
ColumnLists ==
    {<<RESPONSAVEL_ACC, RESPONSAVEL>>, <<RESPONSAVEL_ACC, SITUACAO_ACC>>,
     <<RESPONSAVEL, SITUACAO>>}

(***************************************************************************)
(* The csv files                                                            *)
(***************************************************************************)
Status == <<"S", "t", "a", "t", "u", "s">>
Atendente == <<"A", "t", "e", "n", "d", "e", "n", "t", "e">>
Data_Resolucao == <<"D", "a", "t", "a", " ", "R", "e", "s", "o", "l", "u", "c_cedil", "a_tilde", "o">>
DATA_STATUS == <<"D", "A", "T", "A", " ", "S", "T", "A", "T", "U", "S">>
Resolvido == <<"R", "e", "s", "o", "l", "v", "i", "d", "o">>
julio_padded == <<" ", "j", "u", "l", "i", "o", " ">>
Blank == <<" ">>
NotADate == <<"x">>
IG_ORD_R == <<"I", "G", "ORD_M", "R">>

CsvLayouts ==
    [plain |-> [cols |-> <<Text(RESOLUCAO), Text(RESPONSAVEL), Text(SITUACAO)>>,
                kinds |-> << <<Date(Day10), Text(julio_padded), Text(Resolvido)>>,
                             <<Date(Day11), NaN, Text(QUITADO)>>,
                             <<Text(NotADate), Text(LEANDRO), Text(APROVADO)>>,
                             <<Date(Day10), Text(Blank), Text(PENDENTE)>> >>],
     twostatus |-> [cols |-> <<Text(STATUS), Text(SITUACAO), Text(RESOLUCAO), Text(RESPONSAVEL)>>,
                    kinds |-> << <<Text(PENDENTE), Text(RESOLVIDO), Date(Day10), Text(JULIO)>> >>],
     twodates |-> [cols |-> <<Text(DATA), Text(RESOLUCAO), Text(RESPONSAVEL), Text(SITUACAO)>>,
                   kinds |-> << <<Date(Day10), Date(Day11), Text(ADRIANO), Text(RESOLVIDO)>>,
                                <<Date(Day10), Date(Day10), Text(IG_ORD_R), Text(RESOLVIDO)>> >>],
     nodate |-> [cols |-> <<Text(RESPONSAVEL), Text(SITUACAO)>>,
                 kinds |-> << <<Text(JULIO), Text(RESOLVIDO)>> >>],
     noresponsible |-> [cols |-> <<Text(RESOLUCAO), Text(SITUACAO)>>,
                        kinds |-> << <<Date(Day10), Text(RESOLVIDO)>> >>],
     nostatus |-> [cols |-> <<Text(RESOLUCAO), Text(RESPONSAVEL)>>,
                   kinds |-> << <<Date(Day11), Text(LEANDRO)>> >>],
     typed |-> [cols |-> <<Text(Status), Text(Atendente), Text(Data_Resolucao)>>,
                kinds |-> << <<Text(QUITADO), Text(JULIO), Date(Day10)>> >>],
     datastatus |-> [cols |-> <<Text(DATA_STATUS), Text(RESPONSAVEL)>>,
                     kinds |-> << <<Date(Day11), Text(ADRIANO)>> >>]]

CsvFilesOf(l) ==
    {[cols |-> CsvLayouts[l].cols,
      rows |-> [i \in DOMAIN q |-> CsvLayouts[l].kinds[q[i]]]] :
        q \in Ascending(Len(CsvLayouts[l].kinds), MaxRows) \ {<<>>}}

CsvFiles == UNION {CsvFilesOf(l) : l \in DOMAIN CsvLayouts}

NoProc == [op |-> "none", files |-> <<>>, file |-> 0, raised |-> FALSE,
           mapping |-> <<>>, cols |-> <<>>, index |-> <<>>, rows |-> <<>>, report |-> <<>>]

(***************************************************************************)
(* Inputs of the text functions                                             *)
(***************************************************************************)
TextAlphabet == {"a", "A", " ", "a_acute", "STAR", "ORD_M"}

SeqsUpTo(S, n) == UNION {[1..m -> S] : m \in 0..n}

\* a roster literal as it may be typed in a sheet: lower case, padded
Lower(s) == [i \in 1..Len(s) |->
               IF \E j \in DOMAIN UpperAscii : UpperAscii[j] = s[i]
               THEN LowerAscii[CHOOSE j \in DOMAIN UpperAscii : UpperAscii[j] = s[i]]
               ELSE IF \E j \in DOMAIN UpperAccented : UpperAccented[j] = s[i]
               THEN LowerAccented[CHOOSE j \in DOMAIN UpperAccented : UpperAccented[j] = s[i]]
               ELSE s[i]]

RosterLiterals ==
    Range(equipe_julio_literals) \cup Range(equipe_leandro_adriano_literals)
        \cup Range(daily_equipe_julio) \cup Range(daily_equipe_leandro_adriano)

NameProbes ==
    RosterLiterals
        \cup {Lower(n) : n \in RosterLiterals}
        \cup {<<" ">> \o n \o <<" ">> : n \in RosterLiterals}
        \cup {n \o <<" ">> \o m : n \in Range(daily_equipe_julio),
                                   m \in Range(daily_equipe_leandro_adriano)}
        \cup {m \o <<" ">> \o n : n \in Range(daily_equipe_julio),
                                   m \in Range(daily_equipe_leandro_adriano)}
        \cup {<<"J", "U_ACUTE", "L", "I", "O">>, <<"j", "u_acute", "l", "i", "o">>,
              <<"a", "n", "a", " ", "l", "i_acute", "d", "i", "a">>,
              <<"STAR", " ", "I", "G", "O", "R">>, <<"I", "G", "ORD_M", "R">>}

NameInputs ==
    {NaN} \cup {Text(s) : s \in SeqsUpTo(TextAlphabet, MaxLen) \cup NameProbes}

NoCall == [op |-> "none", arg |-> NaN, out |-> NaN, team |-> ""]

(***************************************************************************)
(* Text specification: a name is read, normalised, normalised again and     *)
(* classified                                                               *)
(***************************************************************************)
TextInit ==
    /\ xls = <<>> /\ dfs = <<>> /\ loaded = FALSE
    /\ ret = NoRet
    /\ proc = NoProc
    /\ \E x \in NameInputs : txt = [op |-> "input", arg |-> x, out |-> x, team |-> ""]

\* df['RESPONSÁVEL'].apply(self.normalize_name)
CallNormalizeName ==
    /\ txt.op = "input"
    /\ txt' = [op |-> "normalize_name", arg |-> txt.arg,
               out |-> normalize_name(txt.arg), team |-> ""]
    /\ UNCHANGED <<xls, dfs, loaded, ret, proc>>

\* normalize_name applied to an already normalised name (get_team does it
\* to the column preprocess_data normalised)
CallNormalizeAgain ==
    /\ txt.op = "normalize_name"
    /\ txt' = [op |-> "renormalize", arg |-> txt.out,
               out |-> normalize_name(txt.out), team |-> ""]
    /\ UNCHANGED <<xls, dfs, loaded, ret, proc>>

\* df['RESPONSÁVEL'].apply(get_team), on the raw or on the normalised column
CallGetTeam ==
    /\ txt.op \in {"input", "normalize_name"}
    /\ txt' = [op |-> "get_team", arg |-> txt.out, out |-> txt.out,
               team |-> get_team(txt.out)]
    /\ UNCHANGED <<xls, dfs, loaded, ret, proc>>

\* resolved_df['RESPONSÁVEL'].apply(get_team) in demandas_daily.py
CallDailyGetTeam ==
    /\ txt.op \in {"input", "normalize_name"}
    /\ txt' = [op |-> "daily_get_team", arg |-> txt.out, out |-> txt.out,
               team |-> daily_get_team(txt.out)]
    /\ UNCHANGED <<xls, dfs, loaded, ret, proc>>

TextNext ==
    \/ CallNormalizeName
    \/ CallNormalizeAgain
    \/ CallGetTeam
    \/ CallDailyGetTeam

TextSpec == TextInit /\ [][TextNext]_vars

(***************************************************************************)
(* Service specification: the constructor loads the workbook sheet by       *)
(* sheet, then the queries are answered                                     *)
(***************************************************************************)
\* the stored sheets with the team filter applied to them in place
dfs_filtered_in_place(frames, team) ==
    [i \in DOMAIN frames |->
        LET eq == IF team.k = "text" /\ team.s # <<>>
                  THEN find_equipe_col(frames[i].cols, 1)
                  ELSE [raised |-> FALSE, idx |-> 0]
        IN IF eq.idx = 0 THEN frames[i]
           ELSE [frames[i] EXCEPT
                    !.rows = FilterRows(frames[i].rows, team_mask(frames[i].rows, eq.idx, team))]]

\* self.dfs after a query: get_daily_metrics filters df_temp = df.copy() and
\* the frames boolean indexing returns, get_teams and get_date_range read
\* the sheets only; no query assigns to self.dfs or to a stored sheet
dfs_after_query(frames, team) == frames

Init ==
    /\ xls = <<>>
    /\ dfs = <<>>
    /\ loaded = FALSE
    /\ ret = NoRet
    /\ txt = NoCall
    /\ proc = NoProc

\* one iteration of `for sheet_name in xls.sheet_names`
LoadSheet ==
    /\ ~loaded
    /\ Len(xls) < MaxSheets
    /\ \E raw \in RawSheets :
          LET res == load_sheet(Len(xls) + 1, raw)
          IN /\ xls' = Append(xls, raw)
             /\ dfs' = IF res.stored THEN Append(dfs, res.df) ELSE dfs
    /\ UNCHANGED <<loaded, ret, txt, proc>>

\* the loop is over and __init__ returns
FinishLoad ==
    /\ ~loaded
    /\ loaded' = TRUE
    /\ UNCHANGED <<xls, dfs, ret, txt, proc>>

GetDailyMetrics ==
    /\ loaded
    /\ ret.op = "none"
    /\ \E date \in Dates, team \in TeamArgs :
          LET res == get_daily_metrics(dfs, date, team)
          IN /\ ret' = [NoRet EXCEPT !.op = "get_daily_metrics", !.date = date, !.team = team,
                                     !.raised = res.raised, !.m = res.m]
             /\ dfs' = dfs_after_query(dfs, team)
    /\ UNCHANGED <<xls, loaded, txt, proc>>

CalculateDailyMetrics ==
    /\ loaded
    /\ ret.op = "none"
    /\ \E date \in Dates, team \in TeamArgs :
          ret' = [NoRet EXCEPT !.op = "calculate_daily_metrics", !.date = date, !.team = team,
                               !.m = calculate_daily_metrics(dfs, date, team)]
    /\ UNCHANGED <<xls, dfs, loaded, txt, proc>>

GetTeams ==
    /\ loaded
    /\ ret.op = "none"
    /\ LET res == get_teams(dfs)
       IN ret' = [NoRet EXCEPT !.op = "get_teams", !.raised = res.raised, !.teams = res.teams]
    /\ dfs' = dfs_after_query(dfs, None)
    /\ UNCHANGED <<xls, loaded, txt, proc>>

GetDateRange ==
    /\ loaded
    /\ ret.op = "none"
    /\ LET res == get_date_range(dfs)
       IN ret' = [NoRet EXCEPT !.op = "get_date_range",
                               !.min_date = res.min_date, !.max_date = res.max_date]
    /\ dfs' = dfs_after_query(dfs, None)
    /\ UNCHANGED <<xls, loaded, txt, proc>>

\* the caller has consumed the result; the service is ready for a new query
Return ==
    /\ ret.op # "none"
    /\ ret' = NoRet
    /\ UNCHANGED <<xls, dfs, loaded, txt, proc>>

Next ==
    \/ LoadSheet
    \/ FinishLoad
    \/ GetDailyMetrics
    \/ CalculateDailyMetrics
    \/ GetTeams
    \/ GetDateRange
    \/ Return

Spec == Init /\ [][Next]_vars

(***************************************************************************)
(* Csv specification: two csv files are read; DataProcessor processes one   *)
(* of them, DemandsTimelineAnalyzer loads both                              *)
(***************************************************************************)
CsvInit ==
    /\ xls = <<>> /\ dfs = <<>> /\ loaded = FALSE
    /\ ret = NoRet
    /\ txt = NoCall
    /\ \E f1 \in CsvFiles, f2 \in CsvFiles :
          proc = [NoProc EXCEPT !.op = "read_csv", !.files = <<f1, f2>>]

\* DataProcessor.load_and_process_file: processed_df, debug_info =
\* self.process_dataframe(df)
ProcessDataframe ==
    /\ proc.op = "read_csv"
    /\ \E k \in DOMAIN proc.files :
          LET res == process_dataframe(proc.files[k])
          IN proc' = [op |-> "process_dataframe", files |-> proc.files, file |-> k,
                      raised |-> res.raised, mapping |-> res.mapping, cols |-> res.cols,
                      index |-> res.index, rows |-> res.rows, report |-> <<>>]
    /\ UNCHANGED <<xls, dfs, loaded, ret, txt>>

\* DemandsTimelineAnalyzer.load_and_prepare_data
LoadAndPrepareData ==
    /\ proc.op = "read_csv"
    /\ LET res == load_and_prepare_data(proc.files)
       IN proc' = [op |-> "load_and_prepare_data", files |-> proc.files, file |-> 0,
                   raised |-> res.raised, mapping |-> res.mapping, cols |-> <<>>,
                   index |-> <<>>, rows |-> res.rows, report |-> team_reports(res.rows)]
    /\ UNCHANGED <<xls, dfs, loaded, ret, txt>>

\* situacao_col = get_situacao_column(df) on a file whose header was
\* stripped and upper-cased as the loaders do
GetSituacaoColumn ==
    /\ proc.op = "read_csv"
    /\ \E k \in DOMAIN proc.files :
          LET df == [cols |-> clean_columns(proc.files[k].cols), rows |-> proc.files[k].rows]
          IN proc' = [op |-> "get_situacao_column", files |-> proc.files, file |-> k,
                      raised |-> FALSE, mapping |-> <<get_situacao_column(df)>>,
                      cols |-> df.cols, index |-> <<>>, rows |-> <<>>, report |-> <<>>]
    /\ UNCHANGED <<xls, dfs, loaded, ret, txt>>

\* df_corrected, corrections = corrector.correct_dataframe(df,
\* columns_to_correct): files holds df as the call leaves it
CorrectDataframe ==
    /\ proc.op = "read_csv"
    /\ \E k \in DOMAIN proc.files, model \in Models, columns \in ColumnLists :
          LET res == correct_dataframe(model, proc.files[k], columns)
          IN proc' = [op |-> "correct_dataframe",
                      files |-> [proc.files EXCEPT ![k] = res.df], file |-> k,
                      raised |-> FALSE, mapping |-> columns, cols |-> res.df.cols,
                      index |-> <<>>, rows |-> res.rows, report |-> res.corrections]
    /\ UNCHANGED <<xls, dfs, loaded, ret, txt>>

CsvNext ==
    \/ ProcessDataframe
    \/ LoadAndPrepareData
    \/ GetSituacaoColumn
    \/ CorrectDataframe

CsvSpec == CsvInit /\ [][CsvNext]_vars

(***************************************************************************)
(* Helpers of the properties                                                *)
(***************************************************************************)
RemoveAt(q, i) == SubSeq(q, 1, i - 1) \o SubSeq(q, i + 1, Len(q))

AddMetrics(a, b) == [n \in MetricNames |-> a[n] + b[n]]

RECURSIVE SumOverTeams(_, _, _)
SumOverTeams(frames, date, teams) ==
    IF teams = <<>> THEN ZeroMetrics
    ELSE AddMetrics(get_daily_metrics(frames, date, Text(Head(teams))).m,
                    SumOverTeams(frames, date, Tail(teams)))

\* the column that names the team of a row, 0 when the sheet has none
TeamColumn(df) == find_equipe_col(df.cols, 1).idx

RowsWhere(df, P(_)) ==
    [df EXCEPT !.rows = FilterRows(df.rows, [r \in DOMAIN df.rows |-> P(df.rows[r])])]

\* the rows that carry no team: a missing label, or a sheet without a team column
WithoutTeam(frames) ==
    [i \in DOMAIN frames |->
        LET c == TeamColumn(frames[i])
            Missing(row) == isna(row[c])
        IN IF c = 0 THEN frames[i] ELSE RowsWhere(frames[i], Missing)]

\* the rows whose team is t (letter case apart)
OfTeam(frames, t) ==
    [i \in DOMAIN frames |->
        LET c == TeamColumn(frames[i])
            Same(row) == row[c].k = "text" /\ Upper(row[c].s) = Upper(t.s)
        IN IF c = 0 THEN [frames[i] EXCEPT !.rows = <<>>] ELSE RowsWhere(frames[i], Same)]

Raises(df) == find_equipe_col(df.cols, 1).raised

AnyRaises(frames) == \E i \in DOMAIN frames : Raises(frames[i])

RECURSIVE Sound(_)
Sound(frames) ==
    IF frames = <<>> THEN <<>>
    ELSE (IF Raises(Head(frames)) THEN <<>> ELSE <<Head(frames)>>) \o Sound(Tail(frames))

\* C1: get_daily_metrics(d, None) is, counter by counter, the sum of
\* get_daily_metrics(d, t) over the teams of get_teams plus the counters of
\* the rows that carry no team.
C1_Additivity ==
    (ret.op = "get_daily_metrics" /\ ret.team = None /\ ~AnyRaises(dfs))
        => ret.m = AddMetrics(SumOverTeams(dfs, ret.date, get_teams(dfs).teams),
                              get_daily_metrics(WithoutTeam(dfs), ret.date, None).m)

\* C2: a team-scoped query counts the rows of that team only: rows of another
\* team and rows of a sheet without a team column add nothing.
C2_TeamScopeOnly ==
    (ret.op = "get_daily_metrics" /\ ret.team # None /\ ~ret.raised)
        => ret.m = get_daily_metrics(OfTeam(dfs, ret.team), ret.date, None).m

BatchSizes == {1, 2, 1000, 10000}

\* C3: calculate_daily_metrics gives the same counters whatever the batch
\* size (1, 2, 1000, 10000 rows, the last two being a single batch here).
C3_ChunkSizeInvariance ==
    ret.op = "calculate_daily_metrics"
        => \A size \in BatchSizes :
              batched_daily_metrics(dfs, size, ret.date, ret.team) = ret.m

\* a sheet split by batches of one row had two rows counted
C3_Witness ==
    /\ ret.op = "calculate_daily_metrics"
    /\ \E i \in DOMAIN dfs : Len(dfs[i].rows) >= 2
    /\ Len(dfs) = 1
    /\ ret.m.resolvidos >= 1
    /\ ret.m.pendente_receptivo >= 1

Malformed(df) == get_situacao_column(df) = 0

RECURSIVE LoadAll(_, _)
LoadAll(sheets, n) ==
    IF sheets = <<>> THEN <<>>
    ELSE LET res == load_sheet(n, Head(sheets))
         IN (IF res.stored THEN <<[cols |-> res.df.cols, rows |-> res.df.rows]>> ELSE <<>>)
                \o LoadAll(Tail(sheets), n + 1)

Unnamed(frames) == [i \in DOMAIN frames |-> [cols |-> frames[i].cols, rows |-> frames[i].rows]]

\* C4: a sheet without a status column, or one that fails to load, is
\* skipped: the query answers as it does on the other sheets alone, and the
\* loader keeps the sheets that follow the failing one.
C4_PartialFailureIsolation ==
    /\ ret.op = "get_daily_metrics"
          => \A i \in DOMAIN dfs :
                Malformed(dfs[i])
                    => get_daily_metrics(RemoveAt(dfs, i), ret.date, ret.team)
                          = [raised |-> ret.raised, m |-> ret.m]
    /\ \A i \in DOMAIN xls :
          ~load_sheet(i, xls[i]).stored => Unnamed(dfs) = LoadAll(RemoveAt(xls, i), 1)

\* every timestamp a loaded sheet holds
FrameDates(df) == UNION {column_dates(df, c) : c \in DOMAIN df.cols}

\* C5: get_date_range returns the least and the greatest non-null date of
\* the loaded sheets, and a sheet whose dates are all null changes nothing.
C5_DateRange ==
    ret.op = "get_date_range"
        => /\ \A i \in DOMAIN dfs :
                 FrameDates(dfs[i]) = {}
                    => get_date_range(RemoveAt(dfs, i))
                          = [min_date |-> ret.min_date, max_date |-> ret.max_date]
           /\ (\E i \in DOMAIN dfs : FrameDates(dfs[i]) # {})
                 => LET all == UNION {FrameDates(dfs[i]) : i \in DOMAIN dfs}
                    IN ret.min_date = SetMin(all) /\ ret.max_date = SetMax(all)

\* two dates were found next to a sheet that has null dates only
C5_Witness ==
    /\ ret.op = "get_date_range"
    /\ ret.min_date = Day10
    /\ ret.max_date = Day11
    /\ \E i \in DOMAIN dfs : FrameDates(dfs[i]) = {}

\* C6: normalize_name is idempotent: normalising a normalised name changes
\* nothing.
C6_Idempotent ==
    txt.op = "renormalize" => txt.out = txt.arg

\* the two sources of the worked example
ExampleA == [readable |-> TRUE, cols |-> Layouts.noteam.cols, rows |-> <<Layouts.noteam.kinds[1]>>]
ExampleB == [readable |-> TRUE, cols |-> Layouts.noteam.cols, rows |-> <<Layouts.noteam.kinds[2]>>]

ExampleQuery(team) ==
    /\ xls = <<ExampleA, ExampleB>>
    /\ ret.op = "get_daily_metrics"
    /\ ret.date = Day10
    /\ ret.team = team
    /\ ~ret.raised

\* C7 as stated: on the worked example the query of the day returns
\* resolved = 1 and pending_active = 1, the query of Team J resolved = 1, and
\* every other counter is 0.
C7_WorkedExample ==
    /\ ExampleQuery(None)
          => ret.m = [ZeroMetrics EXCEPT !.resolvidos = 1, !.pendente_ativo = 1]
    /\ ExampleQuery(Text(TeamJ))
          => ret.m = [ZeroMetrics EXCEPT !.resolvidos = 1]

\* C7 as amended: on the worked example, whose sources hold no
\* ATIVO/RECEPTIVO column, the query of the day and the query of Team J both
\* return resolved = 1 and every other counter 0.
C7_WorkedExampleAmended ==
    /\ ExampleQuery(None) => ret.m = [ZeroMetrics EXCEPT !.resolvidos = 1]
    /\ ExampleQuery(Text(TeamJ)) => ret.m = [ZeroMetrics EXCEPT !.resolvidos = 1]

C7_Witness == ExampleQuery(None) /\ ret.m.resolvidos = 1

\* some row of the loaded sheets is in the scope (date, team)
InScope(df, row, date, team) ==
    /\ \E c \in DOMAIN df.cols : row[c].k = "date" /\ row[c].d = date
    /\ team # None
          => \E c \in DOMAIN df.cols :
                /\ df.cols[c].k = "text"
                /\ Contains(df.cols[c].s, EQUIPE)
                /\ row[c].k = "text"
                /\ Upper(row[c].s) = Upper(team.s)

ScopeIsAbsent(frames, date, team) ==
    \A i \in DOMAIN frames : \A r \in DOMAIN frames[i].rows :
        ~InScope(frames[i], frames[i].rows[r], date, team)

\* C8: a query of a scope no row is in, or of a service that loaded no
\* sheet, returns all counters 0 and does not raise.
C8_AbsentScopeIsZero ==
    (ret.op = "get_daily_metrics" /\ ScopeIsAbsent(dfs, ret.date, ret.team))
        => ~ret.raised /\ ret.m = ZeroMetrics

\* C9: an error raised while one sheet is processed does not abort the
\* query: the result is the one the other sheets give.
C9_NoEscalation ==
    /\ ret.op = "get_daily_metrics"
          => ~ret.raised /\ ret.m = get_daily_metrics(Sound(dfs), ret.date, ret.team).m
    /\ ret.op = "calculate_daily_metrics"
          => ret.m = calculate_daily_metrics(Sound(dfs), ret.date, ret.team)

\* the team of a present name by exact membership of the normalised name
RosterOf(s) ==
    IF s \in Range(equipe_julio) THEN "J"
    ELSE IF s \in Range(equipe_leandro_adriano) THEN "L"
    ELSE "O"

DailyRosterOf(s) ==
    IF s \in Range(daily_equipe_julio) THEN "J"
    ELSE IF s \in Range(daily_equipe_leandro_adriano) THEN "L"
    ELSE "O"

BoundTo(name) == {i \in DOMAIN proc.mapping : proc.mapping[i] = name}

ProcessedFile == proc.files[proc.file]

\* a cell that is missing or holds no text
MissingText(c) == isna(c) \/ (c.k = "text" /\ Strip(c.s) = <<>>)

\* the cell of row j of the returned frame under a label
OutCell(j, name) == proc.rows[j][CHOOSE i \in DOMAIN proc.cols : proc.cols[i] = Text(name)]

ParsesAsDate(row) == \A i \in BoundTo(resolucao) : to_datetime(row[i]).k = "date"

Processed == proc.op = "process_dataframe" /\ ~proc.raised

\* C11: a row whose responsible is missing or empty is kept (when its date
\* is one), carries the NOT-INFORMED sentinel as responsible and is not
\* classified as OUTROS.
C11_MissingResponsible ==
    Processed =>
        \A r \in DOMAIN ProcessedFile.rows : \A i \in BoundTo(responsavel) :
            (MissingText(ProcessedFile.rows[r][i]) /\ ParsesAsDate(ProcessedFile.rows[r]))
                => /\ \E j \in DOMAIN proc.index : proc.index[j] = r
                   /\ \A j \in DOMAIN proc.index :
                         proc.index[j] = r
                            => /\ OutCell(j, responsavel) = Text(NAO_INFORMADO)
                               /\ OutCell(j, equipe) # Text(OUTROS)

(***************************************************************************)
(* Properties of the status classification                                  *)
(***************************************************************************)
StatusCounters == {"resolvidos", "analise", "quitado", "aprovados"}

\* the keywords of each status counter in the two metric functions
Keywords ==
    [resolvidos |-> {RESOLVID, FINALIZADO, CONCLUIDO_ACC},
     analise |-> {ANALIS, ANALISE_ACC},
     quitado |-> {QUITAD},
     aprovados |-> {APROVAD}]

\* the categories one of whose keywords occurs in a status cell
Tags(c) == {n \in StatusCounters : ContainsAny(Upper(astype_str(c)), Keywords[n])}

\* the status cells of the records of one sheet that a query looks at
SelectedStatus(df, date, team, date_columns) ==
    IF get_situacao_column(df) = 0 THEN <<>>
    ELSE LET eq == IF team.k = "text" /\ team.s # <<>> THEN find_equipe_col(df.cols, 1).idx ELSE 0
             of_team == IF eq # 0 THEN FilterRows(df.rows, team_mask(df.rows, eq, team))
                        ELSE df.rows
             of_date == FilterRows(of_team, date_mask(df, of_team, date_columns, date))
         IN [r \in DOMAIN of_date |-> of_date[r][get_situacao_column(df)]]

\* the status cells a query looks at, over all sheets
RECURSIVE AllSelectedStatus(_, _, _, _)
AllSelectedStatus(frames, date, team, date_columns) ==
    IF frames = <<>> THEN <<>>
    ELSE SelectedStatus(Head(frames), date, team, date_columns)
            \o AllSelectedStatus(Tail(frames), date, team, date_columns)

TagCounts(cells) ==
    [n \in StatusCounters |-> Cardinality({r \in DOMAIN cells : n \in Tags(cells[r])})]

\* C12: each status counter of a query is the number of the records it looks
\* at whose status holds a keyword of that counter, so a record whose status
\* holds keywords of two categories adds one to both counters.
C12_NonExclusive ==
    /\ (ret.op = "get_daily_metrics" /\ ~ret.raised)
          => LET counts == TagCounts(AllSelectedStatus(dfs, ret.date, ret.team,
                                                       service_date_columns))
             IN \A n \in StatusCounters : ret.m[n] = counts[n]
    /\ (ret.op = "calculate_daily_metrics" /\ (ret.team = None \/ ~AnyRaises(dfs)))
          => LET counts == TagCounts(AllSelectedStatus(dfs, ret.date, ret.team,
                                                       dashboard_date_columns))
             IN \A n \in StatusCounters : ret.m[n] = counts[n]

\* the only record of the day is both resolved and settled and was counted
\* once in each of the two counters
C12_Witness ==
    /\ ret.op = "get_daily_metrics"
    /\ ~ret.raised
    /\ Len(dfs) = 1
    /\ Len(dfs[1].rows) = 1
    /\ get_situacao_column(dfs[1]) # 0
    /\ Tags(dfs[1].rows[1][get_situacao_column(dfs[1])]) = {"resolvidos", "quitado"}
    /\ ret.m.resolvidos = 1
    /\ ret.m.quitado = 1

\* a text without its diacritics and in upper case
Fold(s) == AsciiIgnore(NFKD(Upper(s)))

\* the sheets with every status text replaced by a text that differs from it
\* in letter case and diacritics only
FoldStatus(frames) ==
    [i \in DOMAIN frames |->
        LET c == get_situacao_column(frames[i])
        IN [frames[i] EXCEPT !.rows =
              [r \in DOMAIN @ |->
                  [k \in DOMAIN @[r] |->
                      IF k = c /\ @[r][k].k = "text" THEN Text(Fold(@[r][k].s)) ELSE @[r][k]]]]]

\* C13: status texts that differ in letter case or in diacritics only are
\* classified alike: a query answers the same when every status text is
\* replaced by its upper-case, unaccented form.
C13_CaseAccentInsensitive ==
    /\ ret.op = "get_daily_metrics"
          => get_daily_metrics(FoldStatus(dfs), ret.date, ret.team)
                = [raised |-> ret.raised, m |-> ret.m]
    /\ ret.op = "calculate_daily_metrics"
          => calculate_daily_metrics(FoldStatus(dfs), ret.date, ret.team) = ret.m

\* the column the rule of candidate priority binds: the first column, in the
\* order of the header, matched by the earliest candidate that matches any
\* column; 0 when no candidate matches.  A candidate matches a header text
\* that holds it (or, when exact, that equals it).
RECURSIVE ByPriority(_, _, _, _)
ByPriority(names, candidates, k, exact) ==
    IF k > Len(candidates) THEN 0
    ELSE LET hits == {i \in DOMAIN names :
                        IF exact THEN names[i] = candidates[k]
                        ELSE Contains(names[i], candidates[k])}
         IN IF hits # {} THEN SetMin(hits)
            ELSE ByPriority(names, candidates, k + 1, exact)

\* the header of a file in upper case, stripped
HeaderOf(df) == [i \in DOMAIN df.cols |-> Strip(Upper(df.cols[i].s))]

AsSet(i) == IF i = 0 THEN {} ELSE {i}

\* C14: each field is bound to the column matched by the earliest candidate
\* of its list that matches any column: in the mapping of identify_columns,
\* in the three columns find_column finds, and in get_situacao_column.
C14_CandidatePriority ==
    /\ proc.op = "process_dataframe"
          => \A f \in DOMAIN EXPECTED_COLUMNS :
                BoundTo(EXPECTED_COLUMNS[f].target)
                    = AsSet(ByPriority(HeaderOf(ProcessedFile),
                                       EXPECTED_COLUMNS[f].possible_names, 1, FALSE))
    /\ proc.op = "load_and_prepare_data"
          => \A k \in DOMAIN proc.files :
                /\ proc.mapping[k].resolution_col
                      = ByPriority(HeaderOf(proc.files[k]), resolution_patterns, 1, FALSE)
                /\ proc.mapping[k].responsible_col
                      = ByPriority(HeaderOf(proc.files[k]), responsible_patterns, 1, FALSE)
                /\ proc.mapping[k].situation_col
                      = ByPriority(HeaderOf(proc.files[k]), situation_patterns, 1, FALSE)
    /\ proc.op = "get_situacao_column"
          => proc.mapping[1] = ByPriority(HeaderOf(ProcessedFile), possible_columns, 1, TRUE)

\* C15: in the mapping of identify_columns no two columns are bound to one
\* field, so the renamed header holds no standard name twice.
C15_OneColumnPerField ==
    proc.op = "process_dataframe"
        => \A f \in DOMAIN EXPECTED_COLUMNS :
              /\ Cardinality(BoundTo(EXPECTED_COLUMNS[f].target)) <= 1
              /\ label_count(rename(ProcessedFile.cols, proc.mapping),
                             EXPECTED_COLUMNS[f].target) <= 1

\* no field is bound to two columns of the processed file
NoFieldTwice ==
    \A f \in DOMAIN EXPECTED_COLUMNS : Cardinality(BoundTo(EXPECTED_COLUMNS[f].target)) <= 1

\* C16: a file in which a field (date, responsible or status) matches no
\* column is processed without raising.
C16_UnresolvedIsNoError ==
    /\ (proc.op = "process_dataframe" /\ NoFieldTwice
            /\ \E f \in DOMAIN EXPECTED_COLUMNS : BoundTo(EXPECTED_COLUMNS[f].target) = {})
          => ~proc.raised
    /\ (proc.op = "load_and_prepare_data"
            /\ \E k \in DOMAIN proc.files :
                  \/ proc.mapping[k].resolution_col = 0
                  \/ proc.mapping[k].responsible_col = 0
                  \/ proc.mapping[k].situation_col = 0)
          => ~proc.raised

\* the cell of a row of a file under the column find_column found, NaN for None
FoundCell(k, r, c) == IF c = 0 THEN NaN ELSE proc.files[k].rows[r][c]

ReturnedRows == {<<proc.rows[j].file, proc.rows[j].row>> : j \in DOMAIN proc.rows}

HeldByLoad(raw, n) == Len(concat(read_chunks(raw.rows, n)))

\* C18: whatever the batch size n, no more than n rows of a sheet are held
\* at a time: not by the loader once the sheet is read, and not by
\* calculate_daily_metrics, which is handed the loaded sheets.
C18_BoundedByBatch ==
    /\ \A i \in DOMAIN xls : \A n \in BatchSizes :
          xls[i].readable => HeldByLoad(xls[i], n) <= n
    /\ ret.op = "calculate_daily_metrics"
          => \A i \in DOMAIN dfs : \A n \in BatchSizes : Len(dfs[i].rows) <= n

\* the bijections of 1..n
Perms(n) == {p \in [1..n -> 1..n] : \A i, j \in 1..n : p[i] = p[j] => i = j}

\* the sheets in another order
SheetOrders(frames) ==
    {[i \in DOMAIN frames |-> frames[p[i]]] : p \in Perms(Len(frames))}

\* the rows of a sheet in another order
Reordered(df, p) == [df EXCEPT !.rows = [r \in DOMAIN df.rows |-> df.rows[p[r]]]]

\* one sheet with its rows, and so its batches, in another order
RowOrders(frames) ==
    UNION {{[frames EXCEPT ![i] = Reordered(frames[i], p)] :
                p \in Perms(Len(frames[i].rows))} : i \in DOMAIN frames}

Orders(frames) == SheetOrders(frames) \cup RowOrders(frames)

\* C19: the counters of a query are the same whatever the order of the
\* loaded sheets and of the rows of a sheet, whatever the batch size: for
\* get_daily_metrics and for calculate_daily_metrics.
C19_OrderIndependent ==
    /\ ret.op = "get_daily_metrics"
          => \A g \in Orders(dfs) :
                get_daily_metrics(g, ret.date, ret.team) = [raised |-> ret.raised, m |-> ret.m]
    /\ ret.op = "calculate_daily_metrics"
          => \A g \in Orders(dfs) : \A n \in BatchSizes :
                batched_daily_metrics(g, n, ret.date, ret.team) = ret.m

(***************************************************************************)
(* Properties of get_teams                                                  *)
(***************************************************************************)
\* the team labels of a sheet: the cells of its team column that are not
\* missing
TeamLabels(df) ==
    IF TeamColumn(df) = 0 THEN {}
    ELSE {row[TeamColumn(df)].s : row \in {x \in Range(df.rows) : ~isna(x[TeamColumn(df)])}}

LoadedLabels == UNION {TeamLabels(dfs[i]) : i \in DOMAIN dfs}

\* C20: the list get_teams returns holds every team label of the loaded
\* sheets once, holds nothing else, and is in increasing order.
C20_SortedDistinctLabels ==
    (ret.op = "get_teams" /\ ~ret.raised)
        => /\ Range(ret.teams) = LoadedLabels
           /\ Len(ret.teams) = Cardinality(LoadedLabels)
           /\ \A i, j \in DOMAIN ret.teams : i < j => StrLess(ret.teams[i], ret.teams[j])

\* two sheets carry the same label, a team cell is missing, and two labels
\* are returned
C20_Witness ==
    /\ ret.op = "get_teams"
    /\ ~ret.raised
    /\ Len(ret.teams) = 2
    /\ \E i, j \in DOMAIN dfs : i # j /\ TeamLabels(dfs[i]) \cap TeamLabels(dfs[j]) # {}
    /\ \E i \in DOMAIN dfs :
          /\ TeamColumn(dfs[i]) # 0
          /\ \E r \in DOMAIN dfs[i].rows : isna(dfs[i].rows[r][TeamColumn(dfs[i])])

(***************************************************************************)
(* Properties of the queries as readers of the loaded data                  *)
(***************************************************************************)
\* self.dfs as __init__ leaves it for the sheets of a workbook
RECURSIVE FreshlyLoaded(_)
FreshlyLoaded(sheets) ==
    IF sheets = <<>> THEN <<>>
    ELSE LET before == FreshlyLoaded(SubSeq(sheets, 1, Len(sheets) - 1))
             res == load_sheet(Len(sheets), sheets[Len(sheets)])
         IN IF res.stored THEN Append(before, res.df) ELSE before

ScopeRows(df, date, team, date_columns) ==
    IF get_situacao_column(df) = 0 THEN <<>>
    ELSE LET eq == IF team.k = "text" /\ team.s # <<>> THEN find_equipe_col(df.cols, 1).idx ELSE 0
             of_team == IF eq # 0 THEN FilterRows(df.rows, team_mask(df.rows, eq, team))
                        ELSE df.rows
         IN FilterRows(of_team, date_mask(df, of_team, date_columns, date))

\* the number of pending records of the scope of a query
RECURSIVE PendingRecords(_, _, _, _)
PendingRecords(frames, date, team, date_columns) ==
    IF frames = <<>> THEN 0
    ELSE LET df == Head(frames)
             rows == ScopeRows(df, date, team, date_columns)
         IN Cardinality({r \in DOMAIN rows :
                Contains(Upper(astype_str(rows[r][get_situacao_column(df)])), PENDENT)})
            + PendingRecords(Tail(frames), date, team, date_columns)

\* C22: a pending record adds to at most one of pendente_ativo and
\* pendente_receptivo: their sum never exceeds the number of pending records
\* of the scope of the query.
C22_OneChannel ==
    /\ (ret.op = "get_daily_metrics" /\ ~ret.raised)
          => ret.m.pendente_ativo + ret.m.pendente_receptivo
                <= PendingRecords(dfs, ret.date, ret.team, service_date_columns)
    /\ ret.op = "calculate_daily_metrics"
          => ret.m.pendente_ativo + ret.m.pendente_receptivo
                <= PendingRecords(dfs, ret.date, ret.team, dashboard_date_columns)

\* the status cells of the records of a sheet in the scope of a team,
\* whatever their dates
TeamStatus(df, team) ==
    IF get_situacao_column(df) = 0 THEN <<>>
    ELSE LET eq == IF team.k = "text" /\ team.s # <<>> THEN find_equipe_col(df.cols, 1).idx ELSE 0
             of_team == IF eq # 0 THEN FilterRows(df.rows, team_mask(df.rows, eq, team))
                        ELSE df.rows
         IN [r \in DOMAIN of_team |-> of_team[r][get_situacao_column(df)]]

RECURSIVE AllTeamStatus(_, _)
AllTeamStatus(frames, team) ==
    IF frames = <<>> THEN <<>>
    ELSE TeamStatus(Head(frames), team) \o AllTeamStatus(Tail(frames), team)

\* C23: a row is counted under at most one date: for two distinct dates the
\* counters of the two queries together never exceed the number of records
\* of the category, also when a sheet has the columns DATA and RESOLUCAO
\* with different dates.
C23_OneDatePerRow ==
    /\ (ret.op = "get_daily_metrics" /\ ~ret.raised)
          => \A d2 \in Dates \ {ret.date} : \A n \in StatusCounters :
                ret.m[n] + get_daily_metrics(dfs, d2, ret.team).m[n]
                    <= TagCounts(AllTeamStatus(dfs, ret.team))[n]
    /\ ret.op = "calculate_daily_metrics"
          => \A d2 \in Dates \ {ret.date} : \A n \in StatusCounters :
                ret.m[n] + calculate_daily_metrics(dfs, d2, ret.team)[n]
                    <= TagCounts(AllTeamStatus(dfs, ret.team))[n]

(***************************************************************************)
(* Properties of the date range and of the counters                         *)
(***************************************************************************)
\* C24: get_date_range returns a pair with min_date <= max_date, also when
\* no sheet is loaded or no sheet has a non-null date.
C24_RangeOrdered ==
    ret.op = "get_date_range" => ret.min_date <= ret.max_date

\* the counters both metric functions compute from the status and the
\* channel of a record
SharedCounters ==
    {"resolvidos", "analise", "quitado", "aprovados",
     "pendente_ativo", "pendente_receptivo", "receptivo"}

\* the date columns of every loaded sheet are among DATA and RESOLUCAO
OnlyDataAndResolucao ==
    \A i \in DOMAIN dfs : \A n \in dashboard_date_columns \cup service_date_columns :
        HasCol(dfs[i], n) => n \in {DATA, RESOLUCAO}

\* C25: for the same sheets, date and team, get_daily_metrics and
\* calculate_daily_metrics return the same resolved, in-analysis, settled,
\* approved, pending-active, pending-receptive and inbound counters.
C25_ImplementationsAgree ==
    OnlyDataAndResolucao
        => /\ ret.op = "get_daily_metrics"
                 => /\ ~ret.raised
                    /\ \A n \in SharedCounters :
                          ret.m[n] = calculate_daily_metrics(dfs, ret.date, ret.team)[n]
           /\ ret.op = "calculate_daily_metrics"
                 => LET service == get_daily_metrics(dfs, ret.date, ret.team)
                    IN /\ ~service.raised
                       /\ \A n \in SharedCounters : ret.m[n] = service.m[n]

(***************************************************************************)
(* Properties of the rosters                                                *)
(***************************************************************************)
\* C26: the team of a normalised name is the team of the raw name:
\* get_team(normalize_name(x)) = get_team(x) for every responsible x.
C26_TeamOfNormalized ==
    txt.op = "get_team" => get_team(normalize_name(txt.arg)) = txt.team

\* get_team with the two rosters tested in the other order
get_team_swapped(name) ==
    IF isna(name) THEN "Sem Responsável"
    ELSE LET resp == normalize_name(name).s IN
         IF InList(resp, equipe_leandro_adriano) THEN "Equipe Leandro e Adriano"
         ELSE IF InList(resp, equipe_julio) THEN "Equipe Júlio"
         ELSE "Outros"

\* C27: the two rosters, once normalised, share no name, so the team
\* get_team gives does not depend on the order in which it tests them.
C27_RostersDisjoint ==
    /\ Range(equipe_julio) \cap Range(equipe_leandro_adriano) = {}
    /\ txt.op = "get_team" => txt.team = get_team_swapped(txt.arg)

\* 'ALINE SALVADOR', whose first word is a member of the other roster, was
\* classified
C27_Witness ==
    /\ txt.op = "get_team"
    /\ txt.arg = Text(equipe_leandro_adriano_literals[1])
    /\ txt.team = "Equipe Leandro e Adriano"
    /\ InList(SubSeq(txt.arg.s, 1, 5), equipe_julio)

\* C28: in every result of get_daily_metrics and of calculate_daily_metrics
\* no counter is negative and pendente_receptivo <= receptivo.
C28_CountersBounded ==
    ret.op \in {"get_daily_metrics", "calculate_daily_metrics"}
        => /\ \A n \in MetricNames : ret.m[n] >= 0
           /\ ret.m.pendente_receptivo <= ret.m.receptivo

\* a pending inbound record was counted next to a record that is not pending
C28_Witness ==
    /\ ret.op = "get_daily_metrics"
    /\ ret.m.pendente_receptivo = 1
    /\ ret.m.receptivo = 1
    /\ ret.m.resolvidos = 1

(***************************************************************************)
(* Properties of the team reports                                           *)
(***************************************************************************)
\* C29: in load_and_prepare_data the TOTAL written to the report file of a
\* team, the sum of the counts of its listed members, is the number of
\* retained records classified to the team, the TOTAL that is logged.
C29_ReportTotals ==
    (proc.op = "load_and_prepare_data" /\ ~proc.raised)
        => \A i \in DOMAIN proc.report : proc.report[i].written = proc.report[i].logged

(***************************************************************************)
(* Properties of DataCorrector.correct_dataframe                            *)
(***************************************************************************)
\* the corrections list has an entry for the cell of row r under column i
HasEntry(r, i) ==
    \E e \in DOMAIN proc.report :
        proc.report[e].Linha = r /\ Text(proc.report[e].Coluna) = proc.cols[i]

\* C30: correct_dataframe leaves its input table as it was, and the
\* corrections list has an entry for a cell exactly when the value of the
\* cell was changed: a missing cell and a cell the model leaves unchanged
\* have no entry.
C30_EntriesAreChanges ==
    proc.op = "correct_dataframe"
        => LET df == proc.files[proc.file]
           IN /\ df \in CsvFiles
              /\ \A r \in DOMAIN df.rows : \A i \in DOMAIN df.cols :
                    HasEntry(r, i) <=> proc.rows[r][i] # df.rows[r][i]

====
